---------------------------- MODULE Spec2Model ----------------------------
(***************************************************************************)
(* A model of the caching and performance layer of the IMAP e-mail server: *)
(* CacheService (memory / Redis store, key derivation, pattern clearing),  *)
(* EmailService (cache-checked reads, invalidating writes) and the         *)
(* connection pool of PerformanceOptimizer.                                *)
(*                                                                         *)
(* Key derivation (sort, join, base64) and pattern matching are computed   *)
(* character by character on the strings, as the code computes them.       *)
(***************************************************************************)
EXTENDS Integers, Sequences, FiniteSets, TLC

VARIABLES
  keyLog,         \* the generateKey calls made so far: [prefix, params, key]
  memoryCache,    \* CacheService.memoryCache: key -> item
  redisData,      \* the external store: key -> item
  client,         \* CacheService.client: "null" or "open"
  useRedis,       \* CacheService.useRedis
  connectPending, \* initializeRedis is suspended in client.connect()
  maxSize,        \* CacheService.config.maxSize
  now,            \* Date.now(), in milliseconds
  ticks,          \* how many times the clock has advanced
  lastCall,       \* the CacheService call just made, with its outcome
  currentConfig,  \* EmailService.currentConfig
  connection,     \* WorkingImapClient.connection: "null", "up" or "down"
  lastReq,        \* the EmailService call just made, with its outcome
  requests,       \* how many EmailService calls have been made
  pool,           \* the connection pool's idle handles (an array)
  inUse,          \* the connection pool's checked-out handles
  poolMaxSize,    \* the connection pool's maxSize
  creating,       \* how many acquire calls are suspended in createConnection
  made,           \* how many handles createConnection has returned
  held,           \* the handles callers hold: acquired and not yet released
  destroyed,      \* the handles passed to destroyConnection
  destroyPending, \* destroy is suspended in Promise.all
  poolCall,       \* the outcome of the pool call just made
  served,         \* the backends that have served a call made on the store
  pending,        \* the deduplicator's ledger: key -> the promise recorded
  operations,     \* the operations dedupe has started, in order
  lastDedupe,     \* the dedupe call just made
  retry,          \* the retry call under way: its loop, its attempts, its waits
  batch,          \* the processBatch or processWithLimit call under way
  debounce,       \* a debounced function: its timers, its calls and invocations
  throttle,       \* a throttled function: its flag, its timers, its calls
  limiter,        \* checkRateLimit's entries and the calls it answered
  flight          \* EmailService requests under way, step by step

keyVars == << keyLog >>
cacheVars == << memoryCache, redisData, client, useRedis, connectPending, maxSize >>
clockVars == << now, ticks >>
svcVars == << currentConfig, connection, lastReq, requests >>
poolVars == << pool, inUse, poolMaxSize, creating, made, held, destroyed,
               destroyPending, poolCall >>
dedupeVars == << pending, operations, lastDedupe >>
timerVars == << debounce, throttle, limiter >>
utilVars == << dedupeVars, retry, batch, timerVars, flight >>
vars == << keyLog, memoryCache, redisData, client, useRedis, connectPending,
           maxSize, now, ticks, lastCall, currentConfig, connection, lastReq,
           requests,
           pool, inUse, poolMaxSize, creating, made, held, destroyed,
           destroyPending, poolCall,
           served, pending, operations, lastDedupe, retry, batch,
           debounce, throttle, limiter, flight >>

(***************************************************************************)
(* Characters and strings                                                  *)
(***************************************************************************)

\* The printable ASCII characters, in code order: AsciiTable[i] has code i + 31
\* (the grave accent, code 96, is spelled out: no string of the model uses it).
AsciiTable ==
  << " ", "!", "\"", "#", "$", "%", "&", "'", "(", ")", "*", "+", ",", "-", ".", "/",
     "0", "1", "2", "3", "4", "5", "6", "7", "8", "9", ":", ";", "<", "=", ">", "?",
     "@", "A", "B", "C", "D", "E", "F", "G", "H", "I", "J", "K", "L", "M", "N", "O",
     "P", "Q", "R", "S", "T", "U", "V", "W", "X", "Y", "Z", "[", "\\", "]", "^", "_",
     "grave", "a", "b", "c", "d", "e", "f", "g", "h", "i", "j", "k", "l", "m", "n", "o",
     "p", "q", "r", "s", "t", "u", "v", "w", "x", "y", "z", "{", "|", "}", "~" >>

\* The UTF-16 code unit (= UTF-8 byte) of a printable ASCII character.
CharCode(c) == 31 + CHOOSE i \in 1..Len(AsciiTable) : AsciiTable[i] = c

\* The base64 alphabet of Buffer.toString('base64'): sextet v is B64Alphabet[v + 1].
B64Alphabet ==
  << "A", "B", "C", "D", "E", "F", "G", "H", "I", "J", "K", "L", "M", "N", "O", "P",
     "Q", "R", "S", "T", "U", "V", "W", "X", "Y", "Z", "a", "b", "c", "d", "e", "f",
     "g", "h", "i", "j", "k", "l", "m", "n", "o", "p", "q", "r", "s", "t", "u", "v",
     "w", "x", "y", "z", "0", "1", "2", "3", "4", "5", "6", "7", "8", "9", "+", "/" >>

\* The i-th character of a string, as a one-character string.
Char(s, i) == SubSeq(s, i, i)

\* The suffix of a string from its i-th character on.
From(s, i) == SubSeq(s, i, Len(s))

\* String comparison by code units, as Array.prototype.sort() compares keys.
RECURSIVE StrLess(_, _)
StrLess(a, b) ==
  IF b = "" THEN FALSE
  ELSE IF a = "" THEN TRUE
  ELSE IF Char(a, 1) # Char(b, 1)
       THEN CharCode(Char(a, 1)) < CharCode(Char(b, 1))
       ELSE StrLess(From(a, 2), From(b, 2))

\* Array.prototype.join(sep) on a sequence of strings.
RECURSIVE Join(_, _)
Join(parts, sep) ==
  IF parts = <<>> THEN ""
  ELSE IF Len(parts) = 1 THEN parts[1]
  ELSE parts[1] \o sep \o Join(Tail(parts), sep)

\* The decimal digits of a natural number.
RECURSIVE NatToStr(_)
NatToStr(n) ==
  IF n < 10 THEN AsciiTable[n + 17]
  ELSE NatToStr(n \div 10) \o AsciiTable[(n % 10) + 17]

\* Number.prototype.toString() of an integer.
NumToStr(n) == IF n < 0 THEN "-" \o NatToStr(-n) ELSE NatToStr(n)

(***************************************************************************)
(* Parameter values.  A value of a parameter map is a string, a number or  *)
(* an object (the searchQuery of a search); a template literal converts it *)
(* to a string.                                                            *)
(***************************************************************************)

StrVal(s) == [t |-> "str", s |-> s, n |-> 0, o |-> <<>>]
NumVal(n) == [t |-> "num", s |-> "", n |-> n, o |-> <<>>]
\* An object value: o is its sequence of <<field, string>> pairs.
ObjVal(o) == [t |-> "obj", s |-> "", n |-> 0, o |-> o]

\* Template-literal conversion of params[key]: a plain object has no
\* toString of its own and becomes "[object Object]" whatever its fields.
ToStr(v) ==
  CASE v.t = "str" -> v.s
    [] v.t = "num" -> NumToStr(v.n)
    [] v.t = "obj" -> "[object Object]"

(***************************************************************************)
(* Buffer.from(s).toString('base64')                                       *)
(***************************************************************************)

Sextet(v) == B64Alphabet[v + 1]

RECURSIVE B64Bytes(_)
B64Bytes(bs) ==
  IF bs = <<>> THEN ""
  ELSE IF Len(bs) = 1 THEN
    Sextet(bs[1] \div 4) \o Sextet((bs[1] % 4) * 16) \o "=="
  ELSE IF Len(bs) = 2 THEN
    Sextet(bs[1] \div 4) \o Sextet((bs[1] % 4) * 16 + bs[2] \div 16)
      \o Sextet((bs[2] % 16) * 4) \o "="
  ELSE
    Sextet(bs[1] \div 4) \o Sextet((bs[1] % 4) * 16 + bs[2] \div 16)
      \o Sextet((bs[2] % 16) * 4 + bs[3] \div 64) \o Sextet(bs[3] % 64)
      \o B64Bytes(SubSeq(bs, 4, Len(bs)))

Base64(s) == B64Bytes([i \in 1..Len(s) |-> CharCode(Char(s, i))])

(***************************************************************************)
(* CacheService.generateKey                                                *)
(***************************************************************************)

\* A parameter map is a sequence of <<key, value>> pairs in insertion order
\* (keys distinct); Object.keys(params) is the sequence of its keys.
ObjectKeys(params) == [i \in 1..Len(params) |-> params[i][1]]

Lookup(params, key) ==
  params[CHOOSE i \in 1..Len(params) : params[i][1] = key][2]

\* Array.prototype.sort() without a comparator: ascending by code units.
RECURSIVE SortStrings(_)
SortStrings(keys) ==
  IF keys = <<>> THEN <<>>
  ELSE LET m == CHOOSE i \in 1..Len(keys) :
                  \A j \in 1..Len(keys) : ~StrLess(keys[j], keys[i])
       IN  << keys[m] >> \o
           SortStrings([i \in 1..(Len(keys) - 1) |->
                          IF i < m THEN keys[i] ELSE keys[i + 1]])

\* A faulty variant of KeyOrder: the keys are left in insertion order.
KeyOrderUnsorted(params) == ObjectKeys(params)

\* Object.keys(params).sort()
KeyOrder(params) == SortStrings(ObjectKeys(params))

ParamString(params) ==
  LET ks == KeyOrder(params)
  IN  Join([i \in 1..Len(ks) |-> ks[i] \o ":" \o ToStr(Lookup(params, ks[i]))], "|")

generateKey(prefix, params) == prefix \o ":" \o Base64(ParamString(params))

(***************************************************************************)
(* The accounts, folders and queries of the model, and the parameter maps  *)
(* EmailService builds from them                                           *)
(***************************************************************************)

Folders == {"INBOX", "Sent"}
Hosts == {"imap.a.com"}
Usernames == {"al", "a+b"}
Limits == {2, 10}
Offsets == {0}
SortOrders == {"desc", "asc"}

\* The ImapConfig values: the fields the cache layer reads.
Accounts == { [host |-> h, username |-> u] : h \in Hosts, u \in Usernames }
\* currentConfig = null
NoConfig == [host |-> "", username |-> ""]

\* `${this.currentConfig.host}:${this.currentConfig.username}`
AccountId(cfg) == cfg.host \o ":" \o cfg.username

\* The searchQuery objects of the model: EmailSearchQuery values with one
\* field set (a boolean field is written as "true" or "false").
FromAlice == ObjVal(<< <<"from", "alice">> >>)
FromBob == ObjVal(<< <<"from", "bob">> >>)
Unread == ObjVal(<< <<"isRead", "false">> >>)
Read == ObjVal(<< <<"isRead", "true">> >>)
SearchQueries == {FromAlice, FromBob, Unread, Read}

\* searchQuery[field], "" when the field is not set.
QueryField(query, field) ==
  IF \E i \in 1..Len(query.o) : query.o[i][1] = field
  THEN query.o[CHOOSE i \in 1..Len(query.o) : query.o[i][1] = field][2]
  ELSE ""

\* The parameter map EmailService.listEmails builds, in its insertion order.
ListParams(folder, limit, offset, sortOrder, host, username) ==
  << <<"folder", StrVal(folder)>>, <<"limit", NumVal(limit)>>,
     <<"offset", NumVal(offset)>>, <<"sortOrder", StrVal(sortOrder)>>,
     <<"host", StrVal(host)>>, <<"username", StrVal(username)>> >>

\* The parameter map EmailService.searchEmails builds, in its insertion order.
SearchParams(searchQuery, folder, limit, offset, host, username) ==
  << <<"searchQuery", searchQuery>>, <<"folder", StrVal(folder)>>,
     <<"limit", NumVal(limit)>>, <<"offset", NumVal(offset)>>,
     <<"host", StrVal(host)>>, <<"username", StrVal(username)>> >>

\* The maps of the unit test of generateKey, in both insertion orders.
TestValues == {"value1", "value2", "different"}
TestMaps ==
  UNION {{ << <<"param1", StrVal(v)>>, <<"param2", StrVal(w)>> >>,
           << <<"param2", StrVal(w)>>, <<"param1", StrVal(v)>> >> }
         : v \in TestValues, w \in TestValues}

ListMaps ==
  { ListParams(f, l, o, so, h, u) :
      f \in Folders, l \in Limits, o \in Offsets, so \in SortOrders,
      h \in Hosts, u \in Usernames }

SearchMaps ==
  { SearchParams(q, f, l, o, h, u) :
      q \in SearchQueries, f \in Folders, l \in Limits, o \in Offsets,
      h \in Hosts, u \in Usernames }

\* The calls of generateKey that cacheEmailList and getCachedEmailList make:
\* the prefix and the map.
FacadeKeyCalls ==
  ({"emails:list"} \X ListMaps) \cup ({"emails:search"} \X SearchMaps)

\* generateKey over those calls, computed once (@@ makes the table an
\* explicit one).
KeyTable == [c \in FacadeKeyCalls |-> generateKey(c[1], c[2])] @@ << >>

\* this.generateKey(prefix, params), looked up in the table
KeyFor(prefix, params) == KeyTable[<< prefix, params >>]

\* `email:${folder}:${uid}` of cacheEmail and getCachedEmail
EmailKey(folder, uid) == "email:" \o folder \o ":" \o uid

\* `folders:${account}` of cacheFolders and getCachedFolders
FoldersKey(account) == "folders:" \o account

(***************************************************************************)
(* Pattern matching of clearPattern                                        *)
(***************************************************************************)

\* Whether the pattern, from its pi-th character, matches s from its si-th
\* character up to some position (a RegExp is not anchored at its end).
\* clearPattern turns every "*" into ".*"; "." is RegExp's any-character and
\* "+" is its one-or-more quantifier of the character before it.  The
\* patterns of the model hold no other RegExp metacharacter but "(".
RECURSIVE RegexMatchAt(_, _, _, _)
RegexMatchAt(p, pi, s, si) ==
  IF pi > Len(p) THEN TRUE
  ELSE IF Char(p, pi) = "*"
       THEN \E k \in si..(Len(s) + 1) : RegexMatchAt(p, pi + 1, s, k)
       ELSE IF pi < Len(p) /\ Char(p, pi + 1) = "+"
       THEN \E k \in (si + 1)..(Len(s) + 1) :
              /\ \A j \in si..(k - 1) : Char(p, pi) \in {".", Char(s, j)}
              /\ RegexMatchAt(p, pi + 2, s, k)
       ELSE /\ si <= Len(s)
            /\ Char(p, pi) \in {".", Char(s, si)}
            /\ RegexMatchAt(p, pi + 1, s, si + 1)

\* A match of the RegExp anywhere in key.
RegexSearch(pattern, key) ==
  \E i \in 1..(Len(key) + 1) : RegexMatchAt(pattern, 1, key, i)

\* new RegExp(...) throws a SyntaxError on an unterminated group.
RegExpThrows(pattern) ==
  Cardinality({i \in 1..Len(pattern) : Char(pattern, i) = "("})
    # Cardinality({i \in 1..Len(pattern) : Char(pattern, i) = ")"})

\* The external store's KEYS pattern: a glob matched against the whole key,
\* "*" any run of characters (the patterns of the model hold no "?", "[", "\").
RECURSIVE GlobMatchAt(_, _, _, _)
GlobMatchAt(p, pi, s, si) ==
  IF pi > Len(p) THEN si = Len(s) + 1
  ELSE IF Char(p, pi) = "*"
       THEN \E k \in si..(Len(s) + 1) : GlobMatchAt(p, pi + 1, s, k)
       ELSE /\ si <= Len(s)
            /\ Char(p, pi) = Char(s, si)
            /\ GlobMatchAt(p, pi + 1, s, si + 1)

\* The keys and patterns the calls of the model use.
StoreKeys == {EmailKey("INBOX", "5"), FoldersKey("imap.a.com:al")}
StorePatterns == {"email:*", "folders:imap.a.com:al*", "INBOX", "email:(*"}

ServiceKeys ==
  { KeyTable[c] : c \in ({"emails:list"} \X ListMaps) \cup ({"emails:search"} \X SearchMaps) }
    \cup { EmailKey(f, u) : f \in Folders, u \in {"5", "7", "9"} }
    \cup { FoldersKey(AccountId(a)) : a \in Accounts }

ServicePatterns ==
  { "emails:list:*" \o f \o "*" : f \in Folders }
    \cup { "emails:search:*" \o f \o "*" : f \in Folders }
    \cup { "folders:" \o AccountId(a) \o "*" : a \in Accounts }
    \cup { "emails:*" \o AccountId(a) \o "*" : a \in Accounts }
    \cup { "email:*" \o AccountId(a) \o "*" : a \in Accounts }

\* Both matchers over the patterns and keys of the model, computed once (@@
\* makes the table an explicit one).
MatchTable ==
  [pk \in (StorePatterns \cup ServicePatterns) \X (StoreKeys \cup ServiceKeys) |->
     [regex |-> RegexSearch(pk[1], pk[2]),
      glob |-> GlobMatchAt(pk[1], 1, pk[2], 1)]] @@ << >>

\* new RegExp(pattern.replace(/\*/g, '.*')).test(key)
RegexTest(pattern, key) == MatchTable[<< pattern, key >>].regex

\* Whether KEYS pattern lists key.
GlobMatch(pattern, key) == MatchTable[<< pattern, key >>].glob

(***************************************************************************)
(* CacheService: the store                                                 *)
(***************************************************************************)

\* CacheService.config, set by the constructor (seconds; items).
EmailTtl == 30 * 60
ListTtl == 5 * 60
FolderTtl == 60 * 60
ConfigMaxSize == 1000

\* The Redis command that rejects during a call (the store is unreachable),
\* "none" when every command of the call succeeds.
Faults == {"none", "get", "setEx", "del", "keys"}

\* The most by which the external store's own expiry (counted from the
\* arrival of SETEX) trails item.createdAt (taken before the call), in ms.
MaxLag == 1

\* A cached value: what it is, the account whose mailbox it came from ("" for
\* a value that came from no mailbox), and its content.
Null == [kind |-> "null", owner |-> "", data |-> <<>>]
Void == [kind |-> "void", owner |-> "", data |-> <<>>]
StringValue(s) == [kind |-> "string", owner |-> "", data |-> << s >>]
\* A Buffer, as the content of an e-mail's attachment is.
BufferValue(s) == [kind |-> "buffer", owner |-> "", data |-> << s >>]

\* Both stores as functions of their keys.  (memoryCache is a Map; its
\* insertion order shows only in the order of eviction among items of equal
\* createdAt, see EvictionChoices.)
MemHas(mem, key) == key \in DOMAIN mem
MemGet(mem, key) == mem[key]
\* Map.delete, for a set of keys
MemDelete(mem, keys) == [k \in DOMAIN mem \ keys |-> mem[k]]
\* Map.set
MemSet(mem, item) ==
  [k \in DOMAIN mem \cup {item.key} |-> IF k = item.key THEN item ELSE mem[k]]

RedisDrop(r, keys) == [k \in DOMAIN r \ keys |-> r[k]]
RedisPut(r, key, e) == [k \in DOMAIN r \cup {key} |-> IF k = key THEN e ELSE r[k]]

\* The external store holds a key until its own expiry, SETEX's seconds
\* after the command arrived: lag milliseconds after item.createdAt.
RedisLive(r, key, t, lag) ==
  key \in DOMAIN r /\ t < r[key].createdAt + lag + r[key].ttl * 1000

\* JSON.parse(JSON.stringify(v)): a Buffer (an attachment's content) comes
\* back as a plain {type, data} object; strings, numbers, arrays and plain
\* objects come back equal.
JsonRoundTrip(v) == IF v.kind = "buffer" THEN [v EXCEPT !.kind = "object"] ELSE v

\* A faulty variant of CatchAndLog: the error is thrown on to the caller.
CatchAndRethrow(threw) == threw

\* catch (error) { console.warn(...) } of get, set, delete and clearPattern:
\* whether the error leaves the method.
CatchAndLog(threw) == FALSE

\* A faulty variant of Valid: the entry is still valid at the very end of its TTL.
ValidInclusive(item, t) == t - item.createdAt <= item.ttl * 1000

\* Date.now() - item.createdAt < item.ttl * 1000
Valid(item, t) == t - item.createdAt < item.ttl * 1000

\* The outcome of a cache call: the stores after it, what it returned,
\* whether it raised, and whether a store command (or the RegExp
\* constructor) threw during it.
CacheOutcome(cs, result, failed) ==
  [cs |-> cs, result |-> result, raised |-> CatchAndLog(failed),
   failed |-> failed]

\* CacheService.get: cs = [mem, redis], redisOn = useRedis && client.
CacheGet(cs, redisOn, key, t, fault, lag) ==
  IF redisOn THEN
    IF fault = "get" THEN CacheOutcome(cs, Null, TRUE)
    ELSE IF ~RedisLive(cs.redis, key, t, lag) THEN
      CacheOutcome([cs EXCEPT !.redis = RedisDrop(@, {key})], Null, FALSE)
    ELSE IF Valid(cs.redis[key], t) THEN
      CacheOutcome(cs, cs.redis[key].value, FALSE)
    ELSE IF fault = "del" THEN CacheOutcome(cs, Null, TRUE)
    ELSE CacheOutcome([cs EXCEPT !.redis = RedisDrop(@, {key})], Null, FALSE)
  ELSE
    IF MemHas(cs.mem, key) /\ Valid(MemGet(cs.mem, key), t) THEN
      CacheOutcome(cs, MemGet(cs.mem, key).value, FALSE)
    ELSE
      CacheOutcome([cs EXCEPT !.mem = MemDelete(@, {key})], Null, FALSE)

\* Math.floor(this.config.maxSize * 0.1)
EvictCount(cap) == cap \div 10

\* A faulty variant of OldestChoices: any n items go, whatever their age.
AnyChoices(mem, n) ==
  LET m == IF n < Cardinality(DOMAIN mem) THEN n ELSE Cardinality(DOMAIN mem)
  IN { S \in SUBSET DOMAIN mem : Cardinality(S) = m }

\* The sets of keys that entries.sort(by createdAt).slice(0, n) can be: n
\* items none of which is younger than an item left behind.  Among items of
\* equal createdAt the stable sort takes them in insertion order, which the
\* model does not keep: any of them may go.
OldestChoices(mem, n) ==
  IF n = 0 THEN {{}}
  ELSE LET m == IF n < Cardinality(DOMAIN mem) THEN n ELSE Cardinality(DOMAIN mem)
       IN { S \in SUBSET DOMAIN mem :
              /\ Cardinality(S) = m
              /\ \A a \in S, b \in DOMAIN mem \ S :
                   mem[a].createdAt <= mem[b].createdAt }

\* The sets of keys a set may evict: none below the capacity.
EvictionChoices(mem, cap) ==
  IF Cardinality(DOMAIN mem) >= cap
  THEN OldestChoices(mem, EvictCount(cap))
  ELSE {{}}

\* CacheService.set; ttl = 0 stands for an omitted (or zero) ttl; victims is
\* the set of keys evicted, one of EvictionChoices on the memory backend.
CacheSet(cs, redisOn, key, value, ttl, t, cap, fault, victims) ==
  LET actualTtl == IF ttl = 0 THEN EmailTtl ELSE ttl
      item == [key |-> key, value |-> value, ttl |-> actualTtl, createdAt |-> t]
  IN
  IF redisOn THEN
    IF fault = "setEx" THEN CacheOutcome(cs, Void, TRUE)
    ELSE CacheOutcome(
           [cs EXCEPT !.redis = RedisPut(@, key, [item EXCEPT !.value = JsonRoundTrip(@)])],
           Void, FALSE)
  ELSE
    CacheOutcome([cs EXCEPT !.mem = MemSet(MemDelete(@, victims), item)], Void, FALSE)

\* Whether victims is what the set of this call may evict.
Admissible(cs, redisOn, cap, victims) ==
  IF redisOn THEN victims = {} ELSE victims \in EvictionChoices(cs.mem, cap)

\* CacheService.delete
CacheDelete(cs, redisOn, key, fault) ==
  IF redisOn THEN
    IF fault = "del" THEN CacheOutcome(cs, Void, TRUE)
    ELSE CacheOutcome([cs EXCEPT !.redis = RedisDrop(@, {key})], Void, FALSE)
  ELSE
    CacheOutcome([cs EXCEPT !.mem = MemDelete(@, {key})], Void, FALSE)

\* CacheService.clearPattern
CacheClearPattern(cs, redisOn, pattern, t, fault, lag) ==
  IF redisOn THEN
    LET keys == { k \in DOMAIN cs.redis :
                    RedisLive(cs.redis, k, t, lag) /\ GlobMatch(pattern, k) }
    IN
    IF fault = "keys" \/ (keys # {} /\ fault = "del")
    THEN CacheOutcome(cs, Void, TRUE)
    ELSE CacheOutcome([cs EXCEPT !.redis = RedisDrop(@, keys)], Void, FALSE)
  ELSE
    IF RegExpThrows(pattern) THEN CacheOutcome(cs, Void, TRUE)
    ELSE CacheOutcome(
           [cs EXCEPT !.mem = MemDelete(@, { k \in DOMAIN cs.mem : RegexTest(pattern, k) })],
           Void, FALSE)

(***************************************************************************)
(* The idle states of the three parts: a behaviour of one specification    *)
(* leaves the other parts as constructed.                                  *)
(***************************************************************************)

NoItem == [key |-> "", value |-> Null, ttl |-> 0, createdAt |-> 0]
NoEntries == [k \in {} |-> NoItem]

\* The record of a CacheService call: what was called, on which backend,
\* what it returned, whether it raised, whether a store command (or the
\* RegExp constructor) threw during it, whether it left both stores as they
\* were, and, for a get, whether the backend held the key and whether that
\* item was past its TTL.
NoCall ==
  [op |-> "none", arg |-> "", result |-> Void, raised |-> FALSE,
   redisOn |-> FALSE, failed |-> FALSE, noop |-> TRUE, seen |-> "none",
   value |-> Null]

NoResponse == [success |-> FALSE, value |-> Null, total |-> 0, hasMore |-> FALSE]

NoPrev ==
  [known |-> FALSE, response |-> NoResponse, calls |-> 0, cold |-> FALSE,
   fault |-> "none"]

\* The record of an EmailService call: what was called with which arguments
\* as which account, on which backend, what it returned, how many Mailbox
\* calls it made, which store command rejected during it ("none" if none
\* did), and, for a performEmailOperation, which keys of its folder and its
\* UIDs the backend held before it, for a listEmails, whether the backend
\* held no key before it and, if it repeats the call before it, that call's
\* outcome.
NoReq ==
  [op |-> "none", cfg |-> NoConfig, folder |-> "", uids |-> <<>>, type |-> "",
   args |-> <<>>, useCache |-> FALSE, response |-> NoResponse, calls |-> 0,
   fault |-> "none", redisOn |-> FALSE, before |-> {}, cold |-> FALSE,
   prev |-> NoPrev]

\* maxSize = 3 of createConnectionPool
DefaultPoolMaxSize == 3

KeyIdle == keyLog = {}

CacheIdle ==
  /\ memoryCache = NoEntries
  /\ redisData = NoEntries
  /\ client = "null"
  /\ useRedis = FALSE
  /\ connectPending = FALSE
  /\ maxSize = ConfigMaxSize
  /\ now = 0
  /\ ticks = 0
  /\ lastCall = NoCall
  /\ served = {}

ServiceIdle ==
  /\ currentConfig = NoConfig
  /\ connection = "null"
  /\ lastReq = NoReq
  /\ requests = 0

\* The call record before any dedupe call: which key, which promise the call
\* returned, whether it started the operation, whether the operation threw
\* before returning a promise, and which operations for the key were in
\* flight when the call was made.
NoDedupe ==
  [key |-> "", promise |-> 0, started |-> FALSE, threw |-> FALSE, inflight |-> {}]

\* The keys callers pass to dedupe, and the number of operations started.
DedupeKeys == {"k1", "k2"}
MaxOperations == 3

\* The empty ledger (new Map()): 0 stands for "no record under this key".
EmptyLedger == [k \in DedupeKeys |-> 0]

DedupeIdle ==
  /\ pending = EmptyLedger
  /\ operations = << >>
  /\ lastDedupe = NoDedupe

\* No error: the value of lastError before any attempt has failed.
Undefined == [kind |-> "undefined", message |-> ""]

\* Before retry is called.
NoRetry ==
  [phase |-> "idle", maxRetries |-> 0, baseDelay |-> 0, attempt |-> 0,
   calls |-> 0, errors |-> << >>, waits |-> << >>, result |-> "",
   thrown |-> Undefined]

\* Before processBatch or processWithLimit is called.
NoBatch ==
  [phase |-> "idle", fn |-> "", size |-> 0, i |-> 0, status |-> << >>,
   results |-> << >>]

\* Before debounce(func, wait) is called: no timer, nothing called yet.
NoDebounce ==
  [phase |-> "idle", wait |-> 0, now |-> 0, timers |-> {}, calls |-> 0,
   log |-> << >>]

\* Before throttle(func, limit) is called.
NoThrottle ==
  [phase |-> "idle", limit |-> 0, now |-> 0, inThrottle |-> FALSE,
   timers |-> {}, calls |-> 0, log |-> << >>]

\* checkRateLimit before any call.
NoLimiter ==
  [phase |-> "idle", maxRequests |-> 0, windowMs |-> 0, now |-> 0,
   requestCounts |-> << >>, calls |-> 0, log |-> << >>]

\* No EmailService request under way.
NoFlight ==
  [phase |-> "idle", type |-> "", connected |-> FALSE, mailbox |-> "pre",
   entry |-> "absent", getPos |-> "start", email |-> "none", opPos |-> "start",
   result |-> "none", next |-> 0, log |-> << >>]

UtilIdle ==
  /\ DedupeIdle
  /\ retry = NoRetry
  /\ batch = NoBatch
  /\ debounce = NoDebounce
  /\ throttle = NoThrottle
  /\ limiter = NoLimiter
  /\ flight = NoFlight

PoolIdle ==
  /\ pool = <<>>
  /\ inUse = {}
  /\ poolMaxSize = DefaultPoolMaxSize
  /\ creating = 0
  /\ made = 0
  /\ held = {}
  /\ destroyed = {}
  /\ destroyPending = FALSE
  /\ poolCall = "none"

(***************************************************************************)
(* The store on its own: callers get, set, delete and clear by pattern     *)
(* while the clock advances and the external store comes and goes.         *)
(***************************************************************************)

\* How many times the clock advances, and by how many milliseconds each time.
MaxTicks == 1
TickMs == 1000

StoreValues == {StringValue("value1"), BufferValue("value1")}
\* The ttl arguments of set, in seconds.
StoreTtls == {1}
\* A capacity small enough for the keys of the model to fill.  (The
\* constructor sets 1000 and takes no argument; set reads config.maxSize.)
SmallCapacity == 1

\* new CacheService(): the constructor runs initializeRedis up to its await
\* of client.connect() when REDIS_URL is set, and to its end when it is not.
\* The small capacity is explored on the store without REDIS_URL.
StoreInit ==
  /\ memoryCache = NoEntries
  /\ redisData = NoEntries
  /\ useRedis = FALSE
  /\ \/ client = "null" /\ connectPending = FALSE
        /\ maxSize \in {SmallCapacity, ConfigMaxSize}
     \/ client = "open" /\ connectPending = TRUE /\ maxSize = ConfigMaxSize
  /\ now = 0
  /\ ticks = 0
  /\ lastCall = NoCall
  /\ served = {}
  /\ KeyIdle
  /\ ServiceIdle
  /\ PoolIdle
  /\ UtilIdle

\* this.useRedis && this.client
RedisOn == useRedis /\ client # "null"
\* The backend a call made now is served by.
Backend == IF RedisOn THEN "redis" ELSE "memory"
CacheState == [mem |-> memoryCache, redis |-> redisData]

\* What the active backend holds for key, as a get at this time finds it.
Seen(key, lag) ==
  LET held_ == IF RedisOn THEN RedisLive(redisData, key, now, lag)
                          ELSE MemHas(memoryCache, key)
      item == IF RedisOn THEN redisData[key] ELSE MemGet(memoryCache, key)
  IN IF ~held_ THEN "none"
     ELSE IF now - item.createdAt >= item.ttl * 1000 THEN "expired"
     ELSE "valid"

\* The keys the active backend holds.
HeldKeys == IF RedisOn THEN DOMAIN redisData ELSE DOMAIN memoryCache

\* Whether the active backend holds key at all.
Holds(key) == key \in HeldKeys

Record(op, arg, r, seen) ==
  [op |-> op, arg |-> arg, result |-> r.result, raised |-> r.raised,
   redisOn |-> RedisOn, failed |-> r.failed, noop |-> r.cs = CacheState,
   seen |-> seen, value |-> Null]

\* The store commands that can reject are those of the external store.
FaultAllowed(fault, lag, cmds) ==
  /\ fault \in cmds \cup {"none"}
  /\ ~RedisOn => (fault = "none" /\ lag = 0)

\* The sets of keys a call may name as evicted: any, once at capacity.
VictimCandidates ==
  IF ~RedisOn /\ Cardinality(DOMAIN memoryCache) >= maxSize
  THEN SUBSET DOMAIN memoryCache
  ELSE {{}}

\* await this.client.connect() resolves: this.useRedis = true
RedisConnected ==
  /\ connectPending
  /\ connectPending' = FALSE
  /\ useRedis' = TRUE
  /\ lastCall' = NoCall
  /\ UNCHANGED served
  /\ lastReq' = NoReq
  /\ UNCHANGED << memoryCache, redisData, client, maxSize >>
  /\ UNCHANGED << currentConfig, connection, requests >>
  /\ UNCHANGED << keyVars, clockVars, poolVars, utilVars >>

\* await this.client.connect() rejects: the catch of initializeRedis
RedisConnectFailed ==
  /\ connectPending
  /\ connectPending' = FALSE
  /\ useRedis' = FALSE
  /\ lastCall' = NoCall
  /\ UNCHANGED served
  /\ lastReq' = NoReq
  /\ UNCHANGED << memoryCache, redisData, client, maxSize >>
  /\ UNCHANGED << currentConfig, connection, requests >>
  /\ UNCHANGED << keyVars, clockVars, poolVars, utilVars >>

\* this.client.on('error', ...): this.useRedis = false
RedisErrorEvent ==
  /\ client = "open"
  /\ useRedis' = FALSE
  /\ lastCall' = NoCall
  /\ UNCHANGED served
  /\ lastReq' = NoReq
  /\ UNCHANGED << memoryCache, redisData, client, connectPending, maxSize >>
  /\ UNCHANGED << currentConfig, connection, requests >>
  /\ UNCHANGED << keyVars, clockVars, poolVars, utilVars >>

Tick ==
  /\ ticks < MaxTicks
  /\ ticks' = ticks + 1
  /\ now' = now + TickMs
  /\ lastCall' = NoCall
  /\ UNCHANGED served
  /\ UNCHANGED << keyVars, cacheVars, svcVars, poolVars, utilVars >>

Get(key, fault, lag) ==
  /\ FaultAllowed(fault, lag, {"get", "del"})
  /\ LET r == CacheGet(CacheState, RedisOn, key, now, fault, lag)
     IN /\ memoryCache' = r.cs.mem
        /\ redisData' = r.cs.redis
        /\ lastCall' = Record("get", key, r, Seen(key, lag))
        /\ served' = served \cup {Backend}
  /\ UNCHANGED << client, useRedis, connectPending, maxSize >>
  /\ UNCHANGED << keyVars, clockVars, svcVars, poolVars, utilVars >>

Set(key, value, ttl, fault, victims) ==
  /\ FaultAllowed(fault, 0, {"setEx"})
  /\ Admissible(CacheState, RedisOn, maxSize, victims)
  /\ LET r == CacheSet(CacheState, RedisOn, key, value, ttl, now, maxSize,
                       fault, victims)
     IN /\ memoryCache' = r.cs.mem
        /\ redisData' = r.cs.redis
        /\ lastCall' = [Record("set", key, r, "none") EXCEPT !.value = value]
        /\ served' = served \cup {Backend}
  /\ UNCHANGED << client, useRedis, connectPending, maxSize >>
  /\ UNCHANGED << keyVars, clockVars, svcVars, poolVars, utilVars >>

Delete(key, fault) ==
  /\ FaultAllowed(fault, 0, {"del"})
  /\ LET r == CacheDelete(CacheState, RedisOn, key, fault)
     IN /\ memoryCache' = r.cs.mem
        /\ redisData' = r.cs.redis
        /\ lastCall' = Record("delete", key, r, "none")
        /\ served' = served \cup {Backend}
  /\ UNCHANGED << client, useRedis, connectPending, maxSize >>
  /\ UNCHANGED << keyVars, clockVars, svcVars, poolVars, utilVars >>

ClearPattern(pattern, fault, lag) ==
  /\ FaultAllowed(fault, lag, {"keys", "del"})
  /\ LET r == CacheClearPattern(CacheState, RedisOn, pattern, now, fault, lag)
     IN /\ memoryCache' = r.cs.mem
        /\ redisData' = r.cs.redis
        /\ lastCall' = Record("clearPattern", pattern, r, "none")
        /\ served' = served \cup {Backend}
  /\ UNCHANGED << client, useRedis, connectPending, maxSize >>
  /\ UNCHANGED << keyVars, clockVars, svcVars, poolVars, utilVars >>

\* CacheService.disconnect: client.disconnect() is awaited outside any try,
\* so its rejection leaves the method before anything is reset.  Once the
\* client is gone no call of this CacheService reaches the external store
\* again (no client is created after the constructor), and the model lets
\* go of the store's contents.
CacheDisconnect(threw) ==
  /\ threw => client = "open"
  /\ IF threw
     THEN UNCHANGED << memoryCache, redisData, client, useRedis >>
     ELSE /\ memoryCache' = NoEntries
          /\ redisData' = NoEntries
          /\ client' = "null"
          /\ useRedis' = IF client = "open" THEN FALSE ELSE useRedis
  /\ UNCHANGED << connectPending, maxSize >>

Disconnect(threw) ==
  /\ CacheDisconnect(threw)
  /\ lastCall' = [NoCall EXCEPT !.op = "disconnect", !.raised = threw,
                                !.redisOn = RedisOn]
  /\ UNCHANGED served
  /\ UNCHANGED << keyVars, clockVars, svcVars, poolVars, utilVars >>

StoreNext ==
  \/ RedisConnected
  \/ RedisConnectFailed
  \/ RedisErrorEvent
  \/ Tick
  \/ \E k \in StoreKeys, f \in Faults, lag \in 0..MaxLag : Get(k, f, lag)
  \/ \E k \in StoreKeys, v \in StoreValues, ttl \in StoreTtls, f \in Faults,
        victims \in VictimCandidates : Set(k, v, ttl, f, victims)
  \/ \E k \in StoreKeys, f \in Faults : Delete(k, f)
  \/ \E p \in StorePatterns, f \in Faults, lag \in 0..MaxLag :
        ClearPattern(p, f, lag)
  \/ \E threw \in BOOLEAN : Disconnect(threw)

SpecStore == StoreInit /\ [][StoreNext]_vars

\* C1: get, set, delete and clearPattern never raise to the caller, whatever
\* the backing store's commands (or the RegExp constructor) do: a get during
\* which a store command failed returns absent, and a set, delete or
\* clearPattern during which one failed leaves the stores as they were.
C1_CacheCallsNeverRaise ==
  lastCall.op \in {"get", "set", "delete", "clearPattern"} =>
    /\ ~lastCall.raised
    /\ lastCall.failed =>
         IF lastCall.op = "get" THEN lastCall.result = Null ELSE lastCall.noop

\* A get on the external store whose GET rejected although the store holds a
\* valid item for the key.
C1_Witness ==
  /\ lastCall.op = "get" /\ lastCall.redisOn /\ lastCall.failed
  /\ lastCall.arg \in DOMAIN redisData
  /\ Valid(redisData[lastCall.arg], now)

MailboxUids(cfg, folder) == IF folder = "INBOX" THEN << "5", "7", "9" >> ELSE <<>>

MailFrom(uid) == IF uid = "7" THEN "bob" ELSE "alice"
MailSeen(uid) == uid = "5"

\* Array.prototype.reverse and slice(offset, offset + limit)
Reverse(s) == [i \in 1..Len(s) |-> s[Len(s) + 1 - i]]
Slice(s, offset, limit) ==
  SubSeq(s, offset + 1, IF offset + limit < Len(s) THEN offset + limit ELSE Len(s))

EmailList(cfg, uids) == [kind |-> "list", owner |-> cfg.username, data |-> uids]

\* WorkingImapClient.listEmails
ImapListEmails(cfg, folder, limit, offset, sortOrder) ==
  LET search == MailboxUids(cfg, folder)
      total == Len(search)
      sortedUids == IF sortOrder = "desc" THEN Reverse(search) ELSE search
  IN IF total = 0
     THEN [emails |-> EmailList(cfg, <<>>), total |-> 0, hasMore |-> FALSE]
     ELSE IF limit = -1
     THEN [emails |-> EmailList(cfg, sortedUids), total |-> total, hasMore |-> FALSE]
     ELSE [emails |-> EmailList(cfg, Slice(sortedUids, offset, limit)),
           total |-> total, hasMore |-> offset + limit < total]

\* Whether the message matches the search criteria built from the query.
Matches(query, uid) ==
  /\ QueryField(query, "from") \in {"", MailFrom(uid)}
  /\ QueryField(query, "isRead") \in {"", IF MailSeen(uid) THEN "true" ELSE "false"}

\* WorkingImapClient.searchEmails
ImapSearchEmails(cfg, query, folder, limit, offset) ==
  LET searchResults == SelectSeq(MailboxUids(cfg, folder), LAMBDA u : Matches(query, u))
      total == Len(searchResults)
  IN IF total = 0
     THEN [emails |-> EmailList(cfg, <<>>), total |-> 0, hasMore |-> FALSE]
     ELSE [emails |-> EmailList(cfg, Slice(searchResults, offset, limit)),
           total |-> total, hasMore |-> offset + limit < total]

\* WorkingImapClient.getEmail: the message, Null for EmailNotFoundError.
ImapGetEmail(cfg, uid, folder) ==
  IF \E i \in 1..Len(MailboxUids(cfg, folder)) : MailboxUids(cfg, folder)[i] = uid
  THEN [kind |-> "email", owner |-> cfg.username, data |-> << folder, uid >>]
  ELSE Null

\* WorkingImapClient.listFolders
ImapListFolders(cfg) ==
  [kind |-> "folders", owner |-> cfg.username, data |-> << "INBOX", "Sent" >>]

(***************************************************************************)
(* CacheService: the typed methods                                         *)
(***************************************************************************)

\* What a cache call of a request works with: the backend, the time, the
\* capacity, the store command that rejects during the request and the keys
\* its set may evict.
Env(fault, victims) ==
  [redisOn |-> RedisOn, t |-> now, cap |-> maxSize, fault |-> fault,
   victims |-> victims]

\* A cache call that is not made.
Skipped(cs) == CacheOutcome(cs, Null, FALSE)

cacheEmailList(cs, env, prefix, params, emails) ==
  CacheSet(cs, env.redisOn, KeyFor("emails:" \o prefix, params), emails, ListTtl,
           env.t, env.cap, env.fault, env.victims)

getCachedEmailList(cs, env, prefix, params) ==
  CacheGet(cs, env.redisOn, KeyFor("emails:" \o prefix, params), env.t, env.fault, 0)

cacheEmail(cs, env, uid, folder, email) ==
  CacheSet(cs, env.redisOn, EmailKey(folder, uid), email, EmailTtl,
           env.t, env.cap, env.fault, env.victims)

getCachedEmail(cs, env, uid, folder) ==
  CacheGet(cs, env.redisOn, EmailKey(folder, uid), env.t, env.fault, 0)

cacheFolders(cs, env, account, folders) ==
  CacheSet(cs, env.redisOn, FoldersKey(account), folders, FolderTtl,
           env.t, env.cap, env.fault, env.victims)

getCachedFolders(cs, env, account) ==
  CacheGet(cs, env.redisOn, FoldersKey(account), env.t, env.fault, 0)

\* clearPattern calls one after the other: the outcome of the last, with
\* failed if any of them failed.
ClearPatterns(cs, env, patterns) ==
  LET after[i \in 0..Len(patterns)] ==
        IF i = 0 THEN Skipped(cs)
        ELSE LET c == CacheClearPattern(after[i - 1].cs, env.redisOn, patterns[i],
                                        env.t, env.fault, 0)
             IN [c EXCEPT !.failed = @ \/ after[i - 1].failed,
                          !.raised = @ \/ after[i - 1].raised]
  IN after[Len(patterns)]

clearAccountCache(cs, env, account) ==
  ClearPatterns(cs, env, << "emails:*" \o account \o "*",
                            "email:*" \o account \o "*",
                            "folders:" \o account \o "*" >>)

(***************************************************************************)
(* EmailService                                                            *)
(***************************************************************************)

\* The outcome of a request: the stores after it, the response, how many
\* Mailbox calls it made, whether a store command rejected during it, and
\* whether the keys named as evicted are what its set may evict.
Outcome(cs, response, calls, failed, admissible) ==
  [cs |-> cs, response |-> response, calls |-> calls, failed |-> failed,
   admissible |-> admissible]

\* The catch blocks of the requests: { success: false, ... }
ErrorResponse == [success |-> FALSE, value |-> Null, total |-> 0, hasMore |-> FALSE]

Response(value, total, hasMore) ==
  [success |-> TRUE, value |-> value, total |-> total, hasMore |-> hasMore]

\* The response of a cache hit of listEmails and searchEmails.
CachedListResponse(cached, limit) ==
  Response(cached, Len(cached.data), Len(cached.data) = limit)

\* How many Mailbox calls a request that fails at the mailbox made: the
\* client throws before any when it has no connection.
FailedCalls(conn) == IF conn = "null" THEN 0 ELSE 1

\* EmailService.listEmails
ListEmailsOutcome(cs, cfg, conn, env, folder, limit, offset, sortOrder, useCache, mboxOk) ==
  IF cfg = NoConfig THEN Outcome(cs, ErrorResponse, 0, FALSE, env.victims = {})
  ELSE
    LET params == ListParams(folder, limit, offset, sortOrder, cfg.host, cfg.username)
        g == IF useCache THEN getCachedEmailList(cs, env, "list", params) ELSE Skipped(cs)
    IN IF g.result # Null
       THEN Outcome(g.cs, CachedListResponse(g.result, limit), 0, g.failed,
                    env.victims = {})
       ELSE IF conn # "up" \/ ~mboxOk
       THEN Outcome(g.cs, ErrorResponse, FailedCalls(conn), g.failed, env.victims = {})
       ELSE
         LET result == ImapListEmails(cfg, folder, limit, offset, sortOrder)
             caches == useCache /\ Len(result.emails.data) > 0
             s == IF caches
                  THEN cacheEmailList(g.cs, env, "list", params, result.emails)
                  ELSE Skipped(g.cs)
         IN Outcome(s.cs, Response(result.emails, result.total, result.hasMore), 1,
                    g.failed \/ s.failed,
                    IF caches THEN Admissible(g.cs, env.redisOn, env.cap, env.victims)
                              ELSE env.victims = {})

\* EmailService.isSearchCacheable
isSearchCacheable(searchQuery) ==
  /\ QueryField(searchQuery, "dateFrom") = ""
  /\ QueryField(searchQuery, "dateTo") = ""
  /\ QueryField(searchQuery, "isRead") \in {"", "false"}

\* EmailService.searchEmails
SearchEmailsOutcome(cs, cfg, conn, env, searchQuery, folder, limit, offset, useCache, mboxOk) ==
  IF cfg = NoConfig THEN Outcome(cs, ErrorResponse, 0, FALSE, env.victims = {})
  ELSE
    LET params == SearchParams(searchQuery, folder, limit, offset, cfg.host, cfg.username)
        cacheable == useCache /\ isSearchCacheable(searchQuery)
        g == IF cacheable THEN getCachedEmailList(cs, env, "search", params)
                          ELSE Skipped(cs)
    IN IF g.result # Null
       THEN Outcome(g.cs, CachedListResponse(g.result, limit), 0, g.failed,
                    env.victims = {})
       ELSE IF conn # "up" \/ ~mboxOk
       THEN Outcome(g.cs, ErrorResponse, FailedCalls(conn), g.failed, env.victims = {})
       ELSE
         LET result == ImapSearchEmails(cfg, searchQuery, folder, limit, offset)
             caches == cacheable /\ Len(result.emails.data) > 0
             s == IF caches
                  THEN cacheEmailList(g.cs, env, "search", params, result.emails)
                  ELSE Skipped(g.cs)
         IN Outcome(s.cs, Response(result.emails, result.total, result.hasMore), 1,
                    g.failed \/ s.failed,
                    IF caches THEN Admissible(g.cs, env.redisOn, env.cap, env.victims)
                              ELSE env.victims = {})

\* EmailService.getEmail, without an AI summary
GetEmailOutcome(cs, cfg, conn, env, uid, folder, useCache, mboxOk) ==
  IF cfg = NoConfig THEN Outcome(cs, ErrorResponse, 0, FALSE, env.victims = {})
  ELSE
    LET g == IF useCache THEN getCachedEmail(cs, env, uid, folder) ELSE Skipped(cs)
        email == ImapGetEmail(cfg, uid, folder)
    IN IF g.result # Null
       THEN Outcome(g.cs, Response(g.result, 0, FALSE), 0, g.failed, env.victims = {})
       ELSE IF conn # "up" \/ ~mboxOk \/ email = Null
       THEN Outcome(g.cs, ErrorResponse, FailedCalls(conn), g.failed, env.victims = {})
       ELSE
         LET s == IF useCache THEN cacheEmail(g.cs, env, uid, folder, email)
                              ELSE Skipped(g.cs)
         IN Outcome(s.cs, Response(email, 0, FALSE), 1, g.failed \/ s.failed,
                    IF useCache THEN Admissible(g.cs, env.redisOn, env.cap, env.victims)
                                ELSE env.victims = {})

\* EmailService.listFolders
ListFoldersOutcome(cs, cfg, conn, env, useCache, mboxOk) ==
  IF cfg = NoConfig THEN Outcome(cs, ErrorResponse, 0, FALSE, env.victims = {})
  ELSE
    LET accountId == AccountId(cfg)
        g == IF useCache THEN getCachedFolders(cs, env, accountId) ELSE Skipped(cs)
    IN IF g.result # Null
       THEN Outcome(g.cs, Response(g.result, 0, FALSE), 0, g.failed, env.victims = {})
       ELSE IF conn # "up" \/ ~mboxOk
       THEN Outcome(g.cs, ErrorResponse, FailedCalls(conn), g.failed, env.victims = {})
       ELSE
         LET folders == ImapListFolders(cfg)
             s == IF useCache THEN cacheFolders(g.cs, env, accountId, folders)
                              ELSE Skipped(g.cs)
         IN Outcome(s.cs, Response(folders, 0, FALSE), 1, g.failed \/ s.failed,
                    IF useCache THEN Admissible(g.cs, env.redisOn, env.cap, env.victims)
                                ELSE env.victims = {})

\* A faulty variant of InvalidationKey: the folder and the uid change places.
InvalidationKeySwapped(folder, uid) == "email:" \o uid \o ":" \o folder

\* `email:${folder}:${uid}` of invalidateCache
InvalidationKey(folder, uid) == "email:" \o folder \o ":" \o uid

\* for (const uid of operation.uids) await this.cacheService.delete(...)
DeleteEach(cs, env, folder, uids) ==
  LET after[i \in 0..Len(uids)] ==
        IF i = 0 THEN Skipped(cs)
        ELSE LET d == CacheDelete(after[i - 1].cs, env.redisOn,
                                  InvalidationKey(folder, uids[i]), env.fault)
             IN [d EXCEPT !.failed = @ \/ after[i - 1].failed,
                          !.raised = @ \/ after[i - 1].raised]
  IN after[Len(uids)]

\* EmailService.invalidateCache
invalidateCache(cs, cfg, env, operation, folder) ==
  LET accountId == AccountId(cfg)
      d == DeleteEach(cs, env, folder, operation.uids)
      c == ClearPatterns(d.cs, env,
             << "emails:list:*" \o folder \o "*", "emails:search:*" \o folder \o "*" >>
             \o (IF operation.type \in {"move", "delete"}
                 THEN << "folders:" \o accountId \o "*" >> ELSE <<>>))
  IN [c EXCEPT !.failed = @ \/ d.failed, !.raised = @ \/ d.raised]

\* EmailService.performEmailOperation; opOk: the mailbox carried it out.
PerformEmailOperationOutcome(cs, cfg, conn, env, operation, folder, opOk) ==
  IF cfg = NoConfig THEN Outcome(cs, ErrorResponse, 0, FALSE, TRUE)
  ELSE IF conn # "up" \/ ~opOk
  THEN Outcome(cs, ErrorResponse, FailedCalls(conn), FALSE, TRUE)
  ELSE LET i == invalidateCache(cs, cfg, env, operation, folder)
       IN Outcome(i.cs, Response(Null, Len(operation.uids), FALSE), 1, i.failed, TRUE)

\* EmailService.clearCache
ClearCacheOutcome(cs, cfg, env) ==
  IF cfg = NoConfig THEN Outcome(cs, NoResponse, 0, FALSE, TRUE)
  ELSE LET c == clearAccountCache(cs, env, AccountId(cfg))
       IN Outcome(c.cs, NoResponse, 0, c.failed, TRUE)

(***************************************************************************)
(* The service: one EmailService with its CacheService and IMAP client,    *)
(* called by one caller after another, while the external store (if        *)
(* REDIS_URL is set) connects, fails to, or reports an error.  The clock   *)
(* stands still, so no entry expires.                                      *)
(***************************************************************************)

\* How many EmailService calls a behaviour makes.
MaxRequests == 4

\* The folder of the calls other than listEmails, which lists them all.
SvcFolders == {"INBOX"}
SvcLimits == {2}
SvcSortOrders == {"desc"}
SvcUids == {"5"}
SvcQueries == {Read, Unread}
\* The operation.uids arrays and the operation types of the calls: of the
\* nine values of EmailOperation.type, one that clears the folder list as
\* well and one that does not.
OpUidLists == { << "9", "5" >> }
SvcOperationTypes == {"star", "delete"}

\* The keys of the cached lists of a folder for an account, over the page
\* arguments of the model.
ListKeysOf(cfg, folder) ==
  { KeyFor("emails:list", ListParams(folder, l, o, so, cfg.host, cfg.username)) :
      l \in SvcLimits, o \in Offsets, so \in SvcSortOrders }

\* The UIDs of operation.uids
UidSet(uids) == { uids[i] : i \in 1..Len(uids) }

\* The key of the cached folder list of an account.
FolderKeysOf(cfg) ==
  IF cfg = NoConfig THEN {} ELSE {FoldersKey(AccountId(cfg))}

\* The keys an operation on folder with uids is to invalidate for an account.
InvalidatedKeys(cfg, folder, uids) ==
  IF cfg = NoConfig THEN {}
  ELSE { EmailKey(folder, u) : u \in UidSet(uids) } \cup ListKeysOf(cfg, folder)

\* new EmailService(): its CacheService as constructed, initializeRedis at
\* its end (no REDIS_URL) or suspended in client.connect().
SvcInit ==
  /\ memoryCache = NoEntries
  /\ redisData = NoEntries
  /\ useRedis = FALSE
  /\ \/ client = "null" /\ connectPending = FALSE
     \/ client = "open" /\ connectPending = TRUE
  /\ maxSize = ConfigMaxSize
  /\ now = 0
  /\ ticks = 0
  /\ lastCall = NoCall
  /\ served = {}
  /\ ServiceIdle
  /\ KeyIdle
  /\ PoolIdle
  /\ UtilIdle

\* The record of the request just made.
Req(op, folder, uids, type, args, useCache, r, fault) ==
  [op |-> op, cfg |-> currentConfig, folder |-> folder, uids |-> uids,
   type |-> type, args |-> args, useCache |-> useCache,
   response |-> r.response, calls |-> r.calls,
   fault |-> IF r.failed THEN fault ELSE "none",
   redisOn |-> RedisOn, before |-> {}, cold |-> FALSE, prev |-> NoPrev]

\* The outcome of the request just made when it was the same listEmails.
Prev(folder, args, useCache) ==
  IF /\ lastReq.op = "listEmails"
     /\ lastReq.cfg = currentConfig
     /\ lastReq.folder = folder
     /\ lastReq.args = args
     /\ lastReq.useCache = useCache
  THEN [known |-> TRUE, response |-> lastReq.response, calls |-> lastReq.calls,
        cold |-> lastReq.cold, fault |-> lastReq.fault]
  ELSE NoPrev

\* One more call is made.
Called ==
  /\ requests < MaxRequests
  /\ requests' = requests + 1

\* The request leaves the stores as r has them.
Apply(r) ==
  /\ Called
  /\ r.admissible
  /\ memoryCache' = r.cs.mem
  /\ redisData' = r.cs.redis
  /\ UNCHANGED << client, useRedis, connectPending, maxSize >>
  /\ UNCHANGED << currentConfig, connection >>
  /\ UNCHANGED << keyVars, clockVars, lastCall, served, poolVars, utilVars >>

\* A request's inputs: a store command rejects only on the external store.
SvcFault(fault, cmds) == fault \in cmds \cup {"none"} /\ (~RedisOn => fault = "none")

\* EmailService.connect: imapClient.connect replaces the connection, and
\* currentConfig is set once it is up.
Connect(config, ok) ==
  /\ Called
  /\ connection' = IF ok THEN "up" ELSE "down"
  /\ currentConfig' = IF ok THEN config ELSE currentConfig
  /\ lastReq' = [NoReq EXCEPT !.op = "connect", !.cfg = config,
                              !.response = [NoResponse EXCEPT !.success = ok]]
  /\ UNCHANGED << keyVars, cacheVars, clockVars, lastCall, served, poolVars, utilVars >>

\* EmailService.disconnect: the IMAP logout (its failure is logged and the
\* connection kept), then CacheService.disconnect, whose rejection is
\* caught before currentConfig is reset.
ServiceDisconnect(logoutOk, threw) ==
  /\ Called
  /\ ~logoutOk => connection # "null"
  /\ connection' = IF logoutOk THEN "null" ELSE connection
  /\ CacheDisconnect(threw)
  /\ currentConfig' = IF threw THEN currentConfig ELSE NoConfig
  /\ lastReq' = [NoReq EXCEPT !.op = "disconnect", !.cfg = currentConfig,
                              !.redisOn = RedisOn]
  /\ UNCHANGED << keyVars, clockVars, lastCall, served, poolVars, utilVars >>

ListEmails(folder, limit, offset, sortOrder, useCache, fault, mboxOk, victims) ==
  /\ SvcFault(fault, {"get", "setEx"})
  /\ LET r == ListEmailsOutcome(CacheState, currentConfig, connection,
                                Env(fault, victims), folder, limit, offset,
                                sortOrder, useCache, mboxOk)
         args == << limit, offset, sortOrder >>
     IN /\ Apply(r)
        /\ lastReq' = [Req("listEmails", folder, <<>>, "", args, useCache, r, fault)
                         EXCEPT !.cold = HeldKeys = {},
                                !.prev = Prev(folder, args, useCache)]

SearchEmails(searchQuery, folder, limit, offset, useCache, fault, mboxOk, victims) ==
  /\ SvcFault(fault, {"get", "setEx"})
  /\ LET r == SearchEmailsOutcome(CacheState, currentConfig, connection,
                                  Env(fault, victims), searchQuery, folder, limit,
                                  offset, useCache, mboxOk)
     IN /\ Apply(r)
        /\ lastReq' = Req("searchEmails", folder, <<>>, "",
                          << searchQuery, limit, offset >>, useCache, r, fault)

GetEmail(uid, folder, useCache, fault, mboxOk, victims) ==
  /\ SvcFault(fault, {"get", "setEx"})
  /\ LET r == GetEmailOutcome(CacheState, currentConfig, connection,
                              Env(fault, victims), uid, folder, useCache, mboxOk)
     IN /\ Apply(r)
        /\ lastReq' = Req("getEmail", folder, << uid >>, "", <<>>, useCache, r, fault)

ListFolders(useCache, fault, mboxOk, victims) ==
  /\ SvcFault(fault, {"get", "setEx"})
  /\ LET r == ListFoldersOutcome(CacheState, currentConfig, connection,
                                 Env(fault, victims), useCache, mboxOk)
     IN /\ Apply(r)
        /\ lastReq' = Req("listFolders", "", <<>>, "", <<>>, useCache, r, fault)

PerformEmailOperation(operation, folder, fault, opOk) ==
  /\ SvcFault(fault, {"del", "keys"})
  /\ LET r == PerformEmailOperationOutcome(CacheState, currentConfig, connection,
                                           Env(fault, {}), operation, folder, opOk)
     IN /\ Apply(r)
        /\ lastReq' = [Req("performEmailOperation", folder, operation.uids,
                           operation.type, <<>>, FALSE, r, fault)
                         EXCEPT !.before = HeldKeys \cap
                                  (InvalidatedKeys(currentConfig, folder,
                                                   operation.uids)
                                     \cup FolderKeysOf(currentConfig))]

ClearCache(fault) ==
  /\ SvcFault(fault, {"del", "keys"})
  /\ LET r == ClearCacheOutcome(CacheState, currentConfig, Env(fault, {}))
     IN /\ Apply(r)
        /\ lastReq' = Req("clearCache", "", <<>>, "", <<>>, FALSE, r, fault)

SvcNext ==
  \/ RedisConnected
  \/ RedisConnectFailed
  \/ RedisErrorEvent
  \/ \E config \in Accounts, ok \in BOOLEAN : Connect(config, ok)
  \/ \E logoutOk \in BOOLEAN, threw \in BOOLEAN : ServiceDisconnect(logoutOk, threw)
  \/ \E folder \in Folders, limit \in SvcLimits, offset \in Offsets,
        sortOrder \in SvcSortOrders, useCache \in BOOLEAN, fault \in Faults,
        mboxOk \in BOOLEAN, victims \in VictimCandidates :
        ListEmails(folder, limit, offset, sortOrder, useCache, fault, mboxOk, victims)
  \/ \E searchQuery \in SvcQueries, folder \in SvcFolders, limit \in SvcLimits,
        offset \in Offsets, useCache \in BOOLEAN, fault \in Faults,
        mboxOk \in BOOLEAN, victims \in VictimCandidates :
        SearchEmails(searchQuery, folder, limit, offset, useCache, fault, mboxOk, victims)
  \/ \E uid \in SvcUids, folder \in SvcFolders, useCache \in BOOLEAN, fault \in Faults,
        mboxOk \in BOOLEAN, victims \in VictimCandidates :
        GetEmail(uid, folder, useCache, fault, mboxOk, victims)
  \/ \E useCache \in BOOLEAN, fault \in Faults, mboxOk \in BOOLEAN,
        victims \in VictimCandidates :
        ListFolders(useCache, fault, mboxOk, victims)
  \/ \E type \in SvcOperationTypes, uids \in OpUidLists, folder \in SvcFolders,
        fault \in Faults, opOk \in BOOLEAN :
        PerformEmailOperation([type |-> type, uids |-> uids], folder, fault, opOk)
  \/ \E fault \in Faults : ClearCache(fault)

SpecService == SvcInit /\ [][SvcNext]_vars

\* C2 (as claimed): after a successful performEmailOperation on a folder
\* whose list was cached (no store command rejecting), no list entry of the
\* folder is cached and a listEmails for the folder makes a Mailbox call.
C2_OperationInvalidatesList ==
  (/\ lastReq.op = "performEmailOperation"
   /\ lastReq.response.success
   /\ lastReq.fault = "none"
   /\ lastReq.before \cap ListKeysOf(lastReq.cfg, lastReq.folder) # {})
  => /\ \A k \in ListKeysOf(lastReq.cfg, lastReq.folder) : ~Holds(k)
     /\ \A l \in SvcLimits, o \in Offsets, so \in SvcSortOrders :
          ListEmailsOutcome(CacheState, currentConfig, connection, Env("none", {}),
                            lastReq.folder, l, o, so, TRUE, TRUE).calls = 1

C6_SecondListFromCacheSameResult ==
  (/\ lastReq.op = "listEmails"
   /\ lastReq.useCache
   /\ lastReq.prev.known
   /\ lastReq.prev.cold
   /\ lastReq.prev.response.success
   /\ lastReq.prev.fault = "none"
   /\ lastReq.fault = "none")
  => /\ lastReq.prev.calls = 1
     /\ lastReq.calls = 0
     /\ lastReq.response = lastReq.prev.response

\* C9 (as claimed): a read answered from the cache returns a value that came
\* from the mailbox of the account the service is connected as.
C9_CacheHitFromOwnAccount ==
  (/\ lastReq.op \in {"getEmail", "listEmails", "searchEmails", "listFolders"}
   /\ lastReq.response.success
   /\ lastReq.calls = 0)
  => lastReq.response.value.owner = lastReq.cfg.username

(***************************************************************************)
(* PerformanceOptimizer.createConnectionPool: callers acquire, release and *)
(* destroy; an acquire that creates a connection is suspended in           *)
(* createConnection, a destroy in Promise.all.                             *)
(***************************************************************************)

\* The largest maxSize, the most handles createConnection returns and the
\* most acquire calls suspended at once.
MaxPoolSize == 2
MaxHandles == 2
MaxSuspended == 2

PoolInit ==
  /\ pool = <<>>
  /\ inUse = {}
  /\ poolMaxSize \in 1..MaxPoolSize
  /\ creating = 0
  /\ made = 0
  /\ held = {}
  /\ destroyed = {}
  /\ destroyPending = FALSE
  /\ poolCall = "none"
  /\ KeyIdle
  /\ CacheIdle
  /\ ServiceIdle
  /\ UtilIdle

PoolRest == UNCHANGED << keyVars, cacheVars, clockVars, lastCall, served, svcVars, utilVars >>

\* A faulty variant of UnderLimit: one handle more than maxSize is let in.
UnderLimitInclusive(size, limit) == size <= limit

\* inUse.size < maxSize
UnderLimit(size, limit) == size < limit

\* acquire finds an idle handle: pool.pop(), inUse.add
AcquireIdle ==
  /\ pool # <<>>
  /\ pool' = SubSeq(pool, 1, Len(pool) - 1)
  /\ inUse' = inUse \cup {pool[Len(pool)]}
  /\ held' = held \cup {pool[Len(pool)]}
  /\ poolCall' = "reused"
  /\ UNCHANGED << poolMaxSize, creating, made, destroyed, destroyPending >>
  /\ PoolRest

\* acquire finds no idle handle and inUse.size < maxSize: it awaits
\* createConnection()
AcquireCreate ==
  /\ pool = <<>>
  /\ UnderLimit(Cardinality(inUse), poolMaxSize)
  /\ creating < MaxSuspended
  /\ creating' = creating + 1
  /\ poolCall' = "creating"
  /\ UNCHANGED << pool, inUse, poolMaxSize, made, held, destroyed, destroyPending >>
  /\ PoolRest

\* acquire finds no idle handle and inUse.size >= maxSize: it throws
AcquireExhausted ==
  /\ pool = <<>>
  /\ ~UnderLimit(Cardinality(inUse), poolMaxSize)
  /\ poolCall' = "exhausted"
  /\ UNCHANGED << pool, inUse, poolMaxSize, creating, made, held, destroyed,
                  destroyPending >>
  /\ PoolRest

\* createConnection() resolves: inUse.add(newConnection)
AcquireCreated ==
  /\ creating > 0
  /\ made < MaxHandles
  /\ creating' = creating - 1
  /\ made' = made + 1
  /\ inUse' = inUse \cup {made + 1}
  /\ held' = held \cup {made + 1}
  /\ poolCall' = "created"
  /\ UNCHANGED << pool, poolMaxSize, destroyed, destroyPending >>
  /\ PoolRest

\* createConnection() rejects: acquire rejects
AcquireCreateFailed ==
  /\ creating > 0
  /\ creating' = creating - 1
  /\ poolCall' = "createFailed"
  /\ UNCHANGED << pool, inUse, poolMaxSize, made, held, destroyed, destroyPending >>
  /\ PoolRest

\* release(connection) by the caller that holds it
Release(conn) ==
  /\ conn \in held
  /\ held' = held \ {conn}
  /\ inUse' = inUse \ {conn}
  /\ IF Len(pool) < poolMaxSize
     THEN pool' = Append(pool, conn) /\ UNCHANGED destroyed
     ELSE destroyed' = destroyed \cup {conn} /\ UNCHANGED pool
  /\ poolCall' = "released"
  /\ UNCHANGED << poolMaxSize, creating, made, destroyPending >>
  /\ PoolRest

\* destroy up to its await: destroyConnection is called on [...pool, ...inUse]
DestroyStart ==
  /\ ~destroyPending
  /\ destroyPending' = TRUE
  /\ destroyed' = destroyed \cup { pool[i] : i \in 1..Len(pool) } \cup inUse
  /\ poolCall' = "destroying"
  /\ UNCHANGED << pool, inUse, poolMaxSize, creating, made, held >>
  /\ PoolRest

\* Promise.all settles: pool.length = 0 and inUse.clear() if it resolved
DestroyEnd(ok) ==
  /\ destroyPending
  /\ destroyPending' = FALSE
  /\ pool' = IF ok THEN <<>> ELSE pool
  /\ inUse' = IF ok THEN {} ELSE inUse
  /\ poolCall' = IF ok THEN "destroyed" ELSE "destroyFailed"
  /\ UNCHANGED << poolMaxSize, creating, made, held, destroyed >>
  /\ PoolRest

PoolNext ==
  \/ AcquireIdle
  \/ AcquireCreate
  \/ AcquireExhausted
  \/ AcquireCreated
  \/ AcquireCreateFailed
  \/ \E conn \in held : Release(conn)
  \/ DestroyStart
  \/ \E ok \in BOOLEAN : DestroyEnd(ok)

SpecPool == PoolInit /\ [][PoolNext]_vars

\* C10 (as claimed): the idle and the in-use handles together are at most
\* maxSize in every reachable state.
C10_PoolWithinMaxSize == Len(pool) + Cardinality(inUse) <= poolMaxSize

C18_DestroyLeavesNothing ==
  poolCall = "destroyed" =>
    /\ pool = <<>>
    /\ inUse = {}
    /\ \A conn \in 1..made : conn \in destroyed

(***************************************************************************)
(* Key derivation on its own: callers derive keys for parameter maps.      *)
(***************************************************************************)

\* How many generateKey calls a behaviour records.
MaxKeyCalls == 2

\* The calls of generateKey callers make: the maps of the unit test, and
\* list and search maps as EmailService builds them.
KeyCalls ==
  ({"test"} \X TestMaps)
    \cup ({"emails:list"} \X
           { ListParams(f, l, 0, "desc", "imap.a.com", u) :
               f \in Folders, l \in Limits, u \in Usernames })
    \cup ({"emails:search"} \X
           { SearchParams(q, "INBOX", 10, 0, "imap.a.com", u) :
               q \in SearchQueries, u \in Usernames })

KeyInit ==
  /\ keyLog = {}
  /\ CacheIdle
  /\ ServiceIdle
  /\ PoolIdle
  /\ UtilIdle

GenerateKeyCall(prefix, params) ==
  /\ Cardinality(keyLog) < MaxKeyCalls
  /\ keyLog' = keyLog \cup
       {[prefix |-> prefix, params |-> params, key |-> generateKey(prefix, params)]}
  /\ UNCHANGED << cacheVars, clockVars, lastCall, served, svcVars, poolVars, utilVars >>

KeyNext == \E c \in KeyCalls : GenerateKeyCall(c[1], c[2])

SpecKey == KeyInit /\ [][KeyNext]_vars

\* The key-value pairs of a map, whatever their insertion order.
PairSet(params) == { params[i] : i \in 1..Len(params) }
KeySet(params) == { params[i][1] : i \in 1..Len(params) }

\* C7 (as claimed): two maps over the same parameter names that differ in at
\* least one value get different keys under the same prefix.
C7_DistinctMapsDistinctKeys ==
  \A a \in keyLog, b \in keyLog :
    (/\ a.prefix = b.prefix
     /\ KeySet(a.params) = KeySet(b.params)
     /\ PairSet(a.params) # PairSet(b.params))
    => a.key # b.key

\* C8: two maps holding the same key-value pairs, in whatever insertion
\* order, get the same key under the same prefix.
C8_PermutedMapsSameKey ==
  \A a \in keyLog, b \in keyLog :
    (a.prefix = b.prefix /\ PairSet(a.params) = PairSet(b.params))
    => a.key = b.key

\* Two recorded calls whose maps are permutations of one another.
C8_Witness ==
  \E a \in keyLog, b \in keyLog :
    /\ a.prefix = b.prefix
    /\ a.params # b.params
    /\ PairSet(a.params) = PairSet(b.params)

\* ---------------------------------------------------------------------------
\* createDeduplicator: the ledger of pending promises, keyed by request key.
\* ---------------------------------------------------------------------------

\* pending.has(key)
PendingHas(key) == pending[key] # 0

\* The operations for a key that are started and not settled.
InFlight(key) ==
  { id \in 1..Len(operations) :
      operations[id].key = key /\ operations[id].state = "running" }

\* A faulty variant of OnFinally: the callback runs on success only, as with
\* promise.then(cb).
OnThen(state) == state = "resolved"

\* promise.finally(cb): cb runs once the promise settles, whichever way.
OnFinally(state) == state \in {"resolved", "rejected"}

DedupeInit ==
  /\ UtilIdle
  /\ KeyIdle
  /\ CacheIdle
  /\ now = 0
  /\ ticks = 0
  /\ lastCall = NoCall
  /\ served = {}
  /\ ServiceIdle
  /\ PoolIdle

DedupeRest ==
  UNCHANGED << keyVars, cacheVars, clockVars, lastCall, served, svcVars, poolVars,
               retry, batch, timerVars, flight >>

\* dedupe(key, operation) finding a record: the recorded promise is returned
\* and the operation is not invoked.
DedupeJoin(key) ==
  /\ PendingHas(key)
  /\ lastDedupe' = [key |-> key, promise |-> pending[key], started |-> FALSE,
                    threw |-> FALSE, inflight |-> InFlight(key)]
  /\ UNCHANGED << pending, operations >>
  /\ DedupeRest

\* dedupe(key, operation) finding no record: the operation is invoked, the
\* finally callback is attached and the promise is recorded under the key.
DedupeStart(key) ==
  /\ ~PendingHas(key)
  /\ Len(operations) < MaxOperations
  /\ operations' = Append(operations,
                          [key |-> key, state |-> "running", cleaned |-> FALSE])
  /\ pending' = [pending EXCEPT ![key] = Len(operations) + 1]
  /\ lastDedupe' = [key |-> key, promise |-> Len(operations) + 1,
                    started |-> TRUE, threw |-> FALSE,
                    inflight |-> InFlight(key)]
  /\ DedupeRest

\* dedupe(key, operation) finding no record, the operation throwing before it
\* returns a promise: the async function rejects and nothing is recorded.
DedupeThrow(key) ==
  /\ ~PendingHas(key)
  /\ Len(operations) < MaxOperations
  /\ operations' = Append(operations,
                          [key |-> key, state |-> "threw", cleaned |-> TRUE])
  /\ lastDedupe' = [key |-> key, promise |-> 0, started |-> TRUE,
                    threw |-> TRUE, inflight |-> InFlight(key)]
  /\ UNCHANGED pending
  /\ DedupeRest

\* The promise of a started operation settles.
Settle(id, ok) ==
  /\ id \in 1..Len(operations)
  /\ operations[id].state = "running"
  /\ operations' = [operations EXCEPT
                      ![id].state = IF ok THEN "resolved" ELSE "rejected"]
  /\ lastDedupe' = NoDedupe
  /\ UNCHANGED pending
  /\ DedupeRest

\* The finally callback of a settled operation: pending.delete(key), whatever
\* promise is recorded under the key by now.
Finally(id) ==
  /\ id \in 1..Len(operations)
  /\ ~operations[id].cleaned
  /\ OnFinally(operations[id].state)
  /\ pending' = [pending EXCEPT ![operations[id].key] = 0]
  /\ operations' = [operations EXCEPT ![id].cleaned = TRUE]
  /\ lastDedupe' = NoDedupe
  /\ DedupeRest

\* clear(): pending.clear()
Clear ==
  /\ pending' = EmptyLedger
  /\ lastDedupe' = NoDedupe
  /\ UNCHANGED operations
  /\ DedupeRest

DedupeNext ==
  \/ \E key \in DedupeKeys : DedupeJoin(key)
  \/ \E key \in DedupeKeys : DedupeStart(key)
  \/ \E key \in DedupeKeys : DedupeThrow(key)
  \/ \E id \in 1..MaxOperations, ok \in BOOLEAN : Settle(id, ok)
  \/ \E id \in 1..MaxOperations : Finally(id)
  \/ Clear

SpecDedupe == DedupeInit /\ [][DedupeNext]_vars

\* The callbacks of a settled promise are queued as microtasks and the event
\* loop runs every queued microtask: a finally callback that can run does run.
DedupeFairness == \A id \in 1..MaxOperations : WF_vars(Finally(id))

SpecDedupeLive == DedupeInit /\ [][DedupeNext]_vars /\ DedupeFairness

\* C11 (as claimed): a dedupe call made while an operation for its key is in
\* flight does not start the operation again; it returns the promise of the
\* operation in flight, and so settles with that operation's outcome.
C11_InFlightStartsOnce ==
  lastDedupe.inflight # {} =>
    /\ ~lastDedupe.started
    /\ lastDedupe.promise \in lastDedupe.inflight

\* The ledger record of an operation: its promise is the one under its key.
Recorded(id) ==
  /\ id \in 1..Len(operations)
  /\ pending[operations[id].key] = id

\* C12: once a started operation has settled, by success or by failure, its
\* record is eventually gone from the ledger, so that a later dedupe for the
\* key does not find it.
C12_SettledEventuallyRemoved ==
  \A id \in 1..MaxOperations :
    (id \in 1..Len(operations) /\ operations[id].state \in {"resolved", "rejected"})
      ~> ~Recorded(id)

\* An operation that was rejected, whose finally callback has run, and a later
\* dedupe for the same key that started its operation afresh.
C12_Witness ==
  \E id \in 1..Len(operations) :
    /\ operations[id].state = "rejected"
    /\ operations[id].cleaned
    /\ lastDedupe.key = operations[id].key
    /\ lastDedupe.started
    /\ lastDedupe.promise > id

\* ---------------------------------------------------------------------------
\* Further properties of the service and of the store.
\* ---------------------------------------------------------------------------

\* C13 (as claimed): after a successful move or delete (no store command
\* rejecting) the folder list of the connected account is not cached; after
\* a successful operation of another type a folder list that was cached
\* before the operation still is.
C13_MoveDeleteClearFolderList ==
  (/\ lastReq.op = "performEmailOperation"
   /\ lastReq.response.success
   /\ lastReq.fault = "none")
  => \A k \in FolderKeysOf(lastReq.cfg) :
       IF lastReq.type \in {"move", "delete"}
       THEN ~Holds(k)
       ELSE k \in lastReq.before => Holds(k)

\* The keys under which listEmails, searchEmails and listFolders cache for an
\* account: each holds the account's host and user name.
AccountKeys(cfg) ==
  IF cfg = NoConfig THEN {}
  ELSE FolderKeysOf(cfg)
         \cup UNION { ListKeysOf(cfg, f) : f \in Folders }
         \cup { KeyFor("emails:search",
                       SearchParams(q, f, l, o, cfg.host, cfg.username)) :
                  q \in SvcQueries, f \in SvcFolders, l \in SvcLimits, o \in Offsets }

\* C14 (as claimed, for the entries whose key names the account): after
\* clearCache has run clearAccountCache for the connected account (no store
\* command rejecting), the store holds no e-mail list, search result or
\* folder list cached for that account.
C14_ClearAccountCacheClearsAll ==
  (/\ lastReq.op = "clearCache"
   /\ lastReq.fault = "none")
  => \A k \in AccountKeys(lastReq.cfg) : ~Holds(k)

\* C15 (as claimed): all the get, set, delete and clearPattern calls made on
\* a CacheService since its construction were served by one backend.
C15_OneBackendForAllCalls == Cardinality(served) <= 1

\* C16 (as claimed): a get of the key of the set just made (no store command
\* rejecting in either), at once or at any time before the entry's TTL has
\* run, returns the value that was set.
C16_SetThenGetReturnsValue ==
  (lastCall.op = "set" /\ ~lastCall.failed) =>
    \A t \in {now, now + TickMs - 1} :
      CacheGet(CacheState, RedisOn, lastCall.arg, t, "none", 0).result
        = lastCall.value

\* ---------------------------------------------------------------------------
\* retry: an operation attempted again after a wait that doubles each time.
\* ---------------------------------------------------------------------------

\* The largest maxRetries argument of the model (the smallest is -1).
MaxRetries == 2
\* baseDelay = 1000
DefaultBaseDelay == 1000
\* The longest delay a timer takes, in milliseconds: a signed 32-bit integer.
MaxTimerDelay == 2147483647

RetryCounts == -1..MaxRetries
BaseDelays == {0, DefaultBaseDelay, 2^30}
RetryValues == {"v1"}
\* What an attempt rejects with or throws: an Error, or any other value.
RetryErrors ==
  { [kind |-> "Error", message |-> "e1"], [kind |-> "Error", message |-> "e2"],
    [kind |-> "string", message |-> "e1"] }

\* error instanceof Error ? error : new Error(String(error))
WrapError(error) ==
  IF error.kind = "Error" THEN error
  ELSE [kind |-> "Error", message |-> error.message]

\* A faulty variant of BackoffDelay: the delay does not grow.
ConstantDelay(baseDelay, attempt) == baseDelay

\* baseDelay * Math.pow(2, attempt)
BackoffDelay(baseDelay, attempt) == baseDelay * 2^attempt

\* Whether baseDelay * 2^attempt is more than a timer takes.
TimerOverflows(baseDelay, attempt) == baseDelay > MaxTimerDelay \div 2^attempt

\* setTimeout(resolve, delay): a delay below 1 or above the longest one is
\* run as 1 millisecond.
TimerDelay(baseDelay, attempt) ==
  IF TimerOverflows(baseDelay, attempt) THEN 1
  ELSE IF BackoffDelay(baseDelay, attempt) < 1 THEN 1
  ELSE BackoffDelay(baseDelay, attempt)

RetryInit ==
  /\ UtilIdle
  /\ KeyIdle
  /\ CacheIdle
  /\ ServiceIdle
  /\ PoolIdle

RetryRest ==
  UNCHANGED << keyVars, cacheVars, clockVars, lastCall, served, svcVars, poolVars,
               dedupeVars, batch, timerVars, flight >>

\* The loop test and, when it passes, the call of operation().
NextAttempt(r, attempt) ==
  IF attempt <= r.maxRetries
  THEN [r EXCEPT !.phase = "calling", !.attempt = attempt, !.calls = @ + 1]
  ELSE [r EXCEPT !.phase = "thrown"]

\* retry(operation, maxRetries, baseDelay) up to its first await
RetryCall(maxRetries, baseDelay) ==
  /\ retry.phase = "idle"
  /\ retry' = NextAttempt([NoRetry EXCEPT !.maxRetries = maxRetries,
                                          !.baseDelay = baseDelay], 0)
  /\ RetryRest

\* operation() resolves: retry returns its value
AttemptResolves(value) ==
  /\ retry.phase = "calling"
  /\ retry' = [retry EXCEPT !.phase = "returned", !.result = value]
  /\ RetryRest

\* operation() throws or rejects: lastError is set; after the last attempt
\* the loop is left and lastError thrown, otherwise the timer is started.
AttemptRejects(error) ==
  /\ retry.phase = "calling"
  /\ retry' =
       IF retry.attempt = retry.maxRetries
       THEN [retry EXCEPT !.phase = "thrown", !.errors = Append(@, error),
                          !.thrown = WrapError(error)]
       ELSE [retry EXCEPT !.phase = "waiting", !.errors = Append(@, error),
                          !.thrown = WrapError(error),
                          !.waits = Append(@, TimerDelay(retry.baseDelay,
                                                         retry.attempt))]
  /\ RetryRest

\* The timer fires: attempt++ and the next turn of the loop
TimerFires ==
  /\ retry.phase = "waiting"
  /\ retry' = NextAttempt(retry, retry.attempt + 1)
  /\ RetryRest

RetryNext ==
  \/ \E maxRetries \in RetryCounts, baseDelay \in BaseDelays :
       RetryCall(maxRetries, baseDelay)
  \/ \E value \in RetryValues : AttemptResolves(value)
  \/ \E error \in RetryErrors : AttemptRejects(error)
  \/ TimerFires

SpecRetry == RetryInit /\ [][RetryNext]_vars

\* Every attempt settles (the claim is about operations that do), and a
\* timer that was started fires.
RetryFairness ==
  /\ WF_vars(\E value \in RetryValues : AttemptResolves(value))
  /\ WF_vars(\E error \in RetryErrors : AttemptRejects(error))
  /\ WF_vars(TimerFires)

SpecRetryLive == RetryInit /\ [][RetryNext]_vars /\ RetryFairness

RetryEnded == retry.phase \in {"returned", "thrown"}

\* What the claim and its amended form share: at most maxRetries + 1 calls
\* of the operation; a success ends the call at once, every earlier attempt
\* having failed and been waited for; a throw comes after maxRetries + 1
\* failed attempts (or after none, when maxRetries is negative).
RetryCounting ==
  /\ retry.calls <= (IF retry.maxRetries < 0 THEN 0 ELSE retry.maxRetries + 1)
  /\ retry.phase = "returned" =>
       /\ retry.result \in RetryValues
       /\ Len(retry.errors) = retry.calls - 1
       /\ Len(retry.waits) = retry.calls - 1
  /\ retry.phase = "thrown" =>
       /\ Len(retry.errors) = retry.calls
       /\ Len(retry.waits) = (IF retry.calls = 0 THEN 0 ELSE retry.calls - 1)

RetryContract ==
  /\ RetryCounting
  /\ \A k \in 0..(Len(retry.waits) - 1) :
       retry.waits[k + 1] =
         IF TimerOverflows(retry.baseDelay, k) \/ retry.baseDelay * 2^k < 1
         THEN 1 ELSE retry.baseDelay * 2^k
  /\ retry.phase = "thrown" =>
       retry.thrown = IF retry.errors = << >> THEN Undefined
                      ELSE WrapError(retry.errors[Len(retry.errors)])

MaxItems == 3
MaxChunk == 2

\* The chunk sizes the functions default to.
MAX_CONCURRENT_OPERATIONS == 5
BATCH_SIZE == 10

BatchFunctions == {"processBatch", "processWithLimit"}
DefaultChunk(fn) ==
  IF fn = "processBatch" THEN BATCH_SIZE ELSE MAX_CONCURRENT_OPERATIONS
\* The batchSize or limit of a call: one passed, or the default.
ChunkSizes(fn) == 0..MaxChunk \cup {DefaultChunk(fn)}

\* A faulty variant of ChunkEnd: the slice takes one item more.
ChunkEndInclusive(i, size, n) == IF i + size + 1 < n THEN i + size + 1 ELSE n

\* items.slice(i, i + batchSize) ends before this index (counted from 0).
ChunkEnd(i, size, n) == IF i + size < n THEN i + size ELSE n

\* The items of the chunk that starts at index i, numbered from 1.
Chunk(b, i) == (i + 1)..ChunkEnd(i, b.size, Len(b.status))

\* The loop test and, when it passes, batch.map(item => processor(item)):
\* the processor is called on the items of the chunk in order; thrower is
\* the item on which it throws instead of returning a promise (0 for none),
\* which ends the call with the items before it started.
StartChunk(b, i, thrower) ==
  IF i < Len(b.status)
  THEN [b EXCEPT !.i = i,
                 !.phase = IF thrower = 0 THEN "awaiting" ELSE "failed",
                 !.status = [j \in 1..Len(b.status) |->
                               IF j \notin Chunk(b, i) THEN b.status[j]
                               ELSE IF thrower = 0 \/ j < thrower THEN "running"
                               ELSE IF j = thrower THEN "threw"
                               ELSE "new"]]
  ELSE [b EXCEPT !.i = i, !.phase = "done"]

\* The items a processor call may throw on, for the chunk starting at i.
Throwers(b, i) == {0} \cup Chunk(b, i)

\* Promise.all(...) of a chunk resolves to the results in the chunk's order;
\* the result of an item is written as the item's number.
ChunkResults(b, i) ==
  [k \in 1..(ChunkEnd(i, b.size, Len(b.status)) - i) |-> i + k]

BatchInit ==
  /\ UtilIdle
  /\ KeyIdle
  /\ CacheIdle
  /\ ServiceIdle
  /\ PoolIdle

BatchRest ==
  UNCHANGED << keyVars, cacheVars, clockVars, lastCall, served, svcVars, poolVars,
               dedupeVars, retry, timerVars, flight >>

\* processBatch(items, processor, batchSize) or processWithLimit(items,
\* processor, limit) up to its first await
BatchCall(fn, n, size, thrower) ==
  /\ batch.phase = "idle"
  /\ LET b == [NoBatch EXCEPT !.fn = fn, !.size = size,
                              !.status = [j \in 1..n |-> "new"]]
     IN /\ thrower \in Throwers(b, 0)
        /\ batch' = StartChunk(b, 0, thrower)
  /\ BatchRest

\* The promise of a started item settles.
ItemSettles(j, ok) ==
  /\ j \in 1..Len(batch.status)
  /\ batch.status[j] = "running"
  /\ batch' = [batch EXCEPT !.status[j] = IF ok THEN "resolved" ELSE "rejected"]
  /\ BatchRest

\* Promise.all resolves, every item of the chunk having resolved:
\* results.push(...batchResults), i += batchSize, the next turn of the loop
ChunkResolves(thrower) ==
  /\ batch.phase = "awaiting"
  /\ \A j \in Chunk(batch, batch.i) : batch.status[j] = "resolved"
  /\ LET b == [batch EXCEPT !.results = @ \o ChunkResults(batch, batch.i)]
     IN /\ thrower \in Throwers(b, batch.i + batch.size)
        /\ batch' = StartChunk(b, batch.i + batch.size, thrower)
  /\ BatchRest

\* Promise.all rejects, an item of the chunk having rejected: the call
\* rejects, whatever items of the chunk are still in flight.
ChunkRejects ==
  /\ batch.phase = "awaiting"
  /\ \E j \in Chunk(batch, batch.i) : batch.status[j] = "rejected"
  /\ batch' = [batch EXCEPT !.phase = "failed"]
  /\ BatchRest

BatchNext ==
  \/ \E fn \in BatchFunctions, n \in 0..MaxItems :
       \E size \in ChunkSizes(fn), thrower \in 0..MaxItems :
         BatchCall(fn, n, size, thrower)
  \/ \E j \in 1..MaxItems, ok \in BOOLEAN : ItemSettles(j, ok)
  \/ \E thrower \in 0..MaxItems : ChunkResolves(thrower)
  \/ ChunkRejects

SpecBatch == BatchInit /\ [][BatchNext]_vars

\* The items whose processor call is in flight.
Running == { j \in 1..Len(batch.status) : batch.status[j] = "running" }

\* C20: at most N = batchSize (or limit) processor calls are in flight at any
\* time; an item is started only when every item of the chunks before its own
\* has settled; and the results are those of the items in input order, of all
\* of them once the call has returned.
C20_ChunksOneAtATime ==
  /\ Cardinality(Running) <= batch.size
  /\ \A j \in 1..Len(batch.status), h \in 1..Len(batch.status) :
       (/\ batch.status[j] # "new"
        /\ (h - 1) \div batch.size < (j - 1) \div batch.size)
       => batch.status[h] \in {"resolved", "rejected", "threw"}
  /\ batch.results = [k \in 1..Len(batch.results) |-> k]
  /\ batch.phase = "done" => Len(batch.results) = Len(batch.status)

\* An item of the second chunk is in flight, the first chunk's results being
\* in.
C20_Witness ==
  /\ batch.phase = "awaiting"
  /\ batch.size >= 1
  /\ batch.results # << >>
  /\ \E j \in Running : j > batch.size

\* ---------------------------------------------------------------------------
\* debounce: the wrapped function is called once the calls have paused.
\* Time is counted in ticks of the clock; a timer fires at its due time or
\* later, as the event loop gets to it.
\* ---------------------------------------------------------------------------

\* The longest wait (and limit) of the model, how many calls are made, how
\* long after its due time a timer may fire, and the last tick of the clock.
MaxWait == 2
MaxCalls == 3
MaxTimerLag == 1
MaxTime == 5

\* The entries of a log: a call of the returned function, or an invocation
\* of the wrapped one; the arguments of the n-th call are written n.
CallEvent(t, n) == [kind |-> "call", at |-> t, args |-> n]
InvokeEvent(t, n) == [kind |-> "invoke", at |-> t, args |-> n]

\* A faulty variant of ClearTimeout: the pending timer is left to fire.
KeepTimeout(timers, timeout) == timers

\* if (timeout) clearTimeout(timeout): the timer last set is cancelled; a
\* timer that has fired is no longer among the pending ones.
ClearTimeout(timers, timeout) == { t \in timers : t.id # timeout }

\* Time may pass while no pending timer is later than it may be.
TimeMayPass(t, timers) ==
  /\ t < MaxTime
  /\ \A tm \in timers : t < tm.due + MaxTimerLag

DebounceInit ==
  /\ UtilIdle
  /\ KeyIdle
  /\ CacheIdle
  /\ ServiceIdle
  /\ PoolIdle

DebounceRest ==
  UNCHANGED << keyVars, cacheVars, clockVars, lastCall, served, svcVars, poolVars,
               dedupeVars, retry, batch, throttle, limiter, flight >>

\* debounce(func, wait): let timeout = null
Debounce(wait) ==
  /\ debounce.phase = "idle"
  /\ debounce' = [NoDebounce EXCEPT !.phase = "ready", !.wait = wait]
  /\ DebounceRest

\* A call of the debounced function: the timer last set is cleared and a new
\* one set for wait from now.  (calls is also the id of the timer last set.)
DebouncedCall ==
  /\ debounce.phase = "ready"
  /\ debounce.calls < MaxCalls
  /\ debounce.now + debounce.wait <= MaxTime
  /\ LET n == debounce.calls + 1
     IN debounce' =
          [debounce EXCEPT
             !.calls = n,
             !.timers = ClearTimeout(@, debounce.calls)
                          \cup {[id |-> n, due |-> debounce.now + debounce.wait,
                                 args |-> n]},
             !.log = Append(@, CallEvent(debounce.now, n))]
  /\ DebounceRest

\* A timer fires: func(...args) with the arguments of the call that set it
DebounceTimerFires(tm) ==
  /\ tm \in debounce.timers
  /\ debounce.now >= tm.due
  /\ debounce' = [debounce EXCEPT
                    !.timers = @ \ {tm},
                    !.log = Append(@, InvokeEvent(debounce.now, tm.args))]
  /\ DebounceRest

DebounceTick ==
  /\ debounce.phase = "ready"
  /\ TimeMayPass(debounce.now, debounce.timers)
  /\ debounce' = [debounce EXCEPT !.now = @ + 1]
  /\ DebounceRest

\* The timers the model can hold.
DebounceTimers ==
  [id : 1..MaxCalls, due : 0..MaxTime, args : 1..MaxCalls]

DebounceNext ==
  \/ \E wait \in 1..MaxWait : Debounce(wait)
  \/ DebouncedCall
  \/ \E tm \in DebounceTimers : DebounceTimerFires(tm)
  \/ DebounceTick

SpecDebounce == DebounceInit /\ [][DebounceNext]_vars

\* The clock goes on, and the event loop runs a timer that is due.
DebounceFairness ==
  /\ WF_vars(DebounceTick)
  /\ WF_vars(\E tm \in DebounceTimers : DebounceTimerFires(tm))

SpecDebounceLive == DebounceInit /\ [][DebounceNext]_vars /\ DebounceFairness

DebounceContract ==
  \A i \in 1..Len(debounce.log) :
    debounce.log[i].kind = "invoke" =>
      /\ i > 1
      /\ debounce.log[i - 1].kind = "call"
      /\ debounce.log[i].args = debounce.log[i - 1].args
      /\ debounce.log[i].at >= debounce.log[i - 1].at + debounce.wait

FuncResults == {"returns", "throws"}

\* A call of the throttled function that is not passed on.
DropEvent(t, n) == [kind |-> "drop", at |-> t, args |-> n]

\* func(...args); inThrottle = true: the flag is set after func has
\* returned, so an exception thrown by func leaves it as it was.
FlagAfterCall(inThrottle, result) ==
  IF result = "throws" THEN inThrottle ELSE TRUE

ThrottleRest ==
  UNCHANGED << keyVars, cacheVars, clockVars, lastCall, served, svcVars, poolVars,
               dedupeVars, retry, batch, debounce, limiter, flight >>

\* throttle(func, limit): let inThrottle = false
Throttle(limit) ==
  /\ throttle.phase = "idle"
  /\ throttle' = [NoThrottle EXCEPT !.phase = "ready", !.limit = limit]
  /\ ThrottleRest

\* A call with no window open: func is called, then the flag is set and the
\* timer that clears it; neither when func throws.
ThrottledCallInvokes(result) ==
  /\ throttle.phase = "ready"
  /\ throttle.calls < MaxCalls
  /\ throttle.now + throttle.limit <= MaxTime
  /\ ~throttle.inThrottle
  /\ LET n == throttle.calls + 1
     IN throttle' =
          [throttle EXCEPT
             !.calls = n,
             !.log = Append(@, InvokeEvent(throttle.now, n)),
             !.inThrottle = FlagAfterCall(@, result),
             !.timers = IF result = "throws" THEN @
                        ELSE @ \cup {[id |-> n, due |-> throttle.now + throttle.limit,
                                      args |-> n]}]
  /\ ThrottleRest

\* A call with the window open does nothing.
ThrottledCallDropped ==
  /\ throttle.phase = "ready"
  /\ throttle.calls < MaxCalls
  /\ throttle.inThrottle
  /\ throttle' = [throttle EXCEPT
                    !.calls = @ + 1,
                    !.log = Append(@, DropEvent(throttle.now, throttle.calls + 1))]
  /\ ThrottleRest

\* setTimeout(() => inThrottle = false, limit)
ThrottleTimerFires(tm) ==
  /\ tm \in throttle.timers
  /\ throttle.now >= tm.due
  /\ throttle' = [throttle EXCEPT !.timers = @ \ {tm}, !.inThrottle = FALSE]
  /\ ThrottleRest

ThrottleTick ==
  /\ throttle.phase = "ready"
  /\ TimeMayPass(throttle.now, throttle.timers)
  /\ throttle' = [throttle EXCEPT !.now = @ + 1]
  /\ ThrottleRest

ThrottleNext ==
  \/ \E limit \in 1..MaxWait : Throttle(limit)
  \/ \E result \in FuncResults : ThrottledCallInvokes(result)
  \/ ThrottledCallDropped
  \/ \E tm \in DebounceTimers : ThrottleTimerFires(tm)
  \/ ThrottleTick

SpecThrottle == DebounceInit /\ [][ThrottleNext]_vars

\* C22: the wrapped function is invoked at most once per window of length
\* limit (two invocations are limit or more apart), and a call made while a
\* window is open is never invoked (an invocation has the arguments of a
\* call that was not dropped).
C22_ThrottleOncePerWindow ==
  \A i, j \in 1..Len(throttle.log) :
    (i < j /\ throttle.log[i].kind = "invoke") =>
      IF throttle.log[j].kind = "invoke"
      THEN throttle.log[j].at >= throttle.log[i].at + throttle.limit
      ELSE throttle.log[j].args # throttle.log[i].args

\* ---------------------------------------------------------------------------
\* getEmail and performEmailOperation on the same message, step by step:
\* each await of the two methods is a point where the other may run.  The
\* message in the Mailbox and its cache entry are "pre" before the mutation
\* and "post" after it.
\* ---------------------------------------------------------------------------

\* The cache calls of invalidateCache, in the order it makes them.
InvalidationCalls(type) ==
  << "delete", "clear-list", "clear-search" >>
    \o (IF type \in {"move", "delete"} THEN << "clear-folders" >> ELSE << >>)

InvalidationEvents == {"delete", "clear-list", "clear-search", "clear-folders"}

\* What the Mailbox call of performEmailOperation comes to: success = true,
\* success = false, or an exception.
MutationResults == {"ok", "fail", "throws"}

\* A faulty variant of ShouldInvalidate: the result is not looked at.
ShouldInvalidateAlways(result, connected) == connected

\* if (result.success && this.currentConfig); an exception of the Mailbox
\* call goes to the catch block.
ShouldInvalidate(result, connected) == result = "ok" /\ connected

\* The state of the message after a Mailbox call that came to result: a
\* call that fails may have processed the message before it failed.
MailboxAfter(result) ==
  CASE result = "ok" -> {"post"}
    [] result = "fail" -> {"pre", "post"}
    [] result = "throws" -> {"pre"}

\* The Mailbox has no message to fetch once it was moved or deleted.
FetchThrows(type, mailbox) == type \in {"move", "delete"} /\ mailbox = "post"

FlightRest ==
  UNCHANGED << keyVars, cacheVars, clockVars, lastCall, served, svcVars, poolVars,
               dedupeVars, retry, batch, timerVars >>

\* getEmail(uid, folder) and performEmailOperation({type, uids: [uid]}, folder)
\* are called by two requests, the service being connected.
FlightStart(type) ==
  /\ flight.phase = "idle"
  /\ flight' = [NoFlight EXCEPT !.phase = "running", !.type = type,
                                !.connected = TRUE]
  /\ FlightRest

\* disconnect(): this.currentConfig = null
FlightDisconnect ==
  /\ flight.phase = "running"
  /\ flight.connected
  /\ flight' = [flight EXCEPT !.connected = FALSE]
  /\ FlightRest

\* getEmail up to its first await: the configuration check and the lookup
\* getCachedEmail, which finds the entry or not
GetLooksUp ==
  /\ flight.phase = "running"
  /\ flight.getPos = "start"
  /\ flight' = [flight EXCEPT
                  !.getPos = IF flight.connected /\ flight.entry = "absent"
                             THEN "fetching" ELSE "done",
                  !.email = IF flight.connected THEN flight.entry ELSE "none"]
  /\ FlightRest

\* const email = await this.imapClient.getEmail(uid, folder)
GetFetches ==
  /\ flight.getPos = "fetching"
  /\ flight' = IF FetchThrows(flight.type, flight.mailbox)
               THEN [flight EXCEPT !.getPos = "done", !.email = "none"]
               ELSE [flight EXCEPT !.getPos = "fetched", !.email = flight.mailbox]
  /\ FlightRest

\* await this.cacheService.cacheEmail(uid, folder, email)
GetCaches ==
  /\ flight.getPos = "fetched"
  /\ flight' = [flight EXCEPT !.getPos = "done", !.entry = flight.email]
  /\ FlightRest

\* performEmailOperation up to its await: the configuration check and the
\* call of imapClient.performEmailOperation
OpCalls ==
  /\ flight.phase = "running"
  /\ flight.opPos = "start"
  /\ flight' = IF flight.connected
               THEN [flight EXCEPT !.opPos = "calling",
                                   !.log = Append(@, "mutation-called")]
               ELSE [flight EXCEPT !.opPos = "done", !.result = "throws"]
  /\ FlightRest

\* The Mailbox call completes.
MailboxMutates(result, after) ==
  /\ flight.opPos = "calling"
  /\ after \in MailboxAfter(result)
  /\ flight' = [flight EXCEPT !.opPos = "returned", !.result = result,
                              !.mailbox = after,
                              !.log = Append(@, "mutation-" \o result)]
  /\ FlightRest

\* performEmailOperation goes on after its await: it invalidates or returns.
\* (invalidateCache returns at once when there is no configuration.)
OpResumes ==
  /\ flight.opPos = "returned"
  /\ flight' = IF ShouldInvalidate(flight.result, flight.connected)
               THEN [flight EXCEPT !.opPos = "invalidating", !.next = 1]
               ELSE [flight EXCEPT !.opPos = "done"]
  /\ FlightRest

\* The next cache call of invalidateCache; the first deletes the entry of
\* the message.
Invalidates ==
  /\ flight.opPos = "invalidating"
  /\ LET calls == InvalidationCalls(flight.type)
         call == calls[flight.next]
     IN flight' = [flight EXCEPT
                     !.log = Append(@, call),
                     !.entry = IF call = "delete" THEN "absent" ELSE @,
                     !.next = @ + 1,
                     !.opPos = IF flight.next = Len(calls) THEN "done" ELSE @]
  /\ FlightRest

FlightNext ==
  \/ \E type \in SvcOperationTypes : FlightStart(type)
  \/ FlightDisconnect
  \/ GetLooksUp
  \/ GetFetches
  \/ GetCaches
  \/ OpCalls
  \/ \E result \in MutationResults, after \in {"pre", "post"} :
       MailboxMutates(result, after)
  \/ OpResumes
  \/ Invalidates

SpecFlight == DebounceInit /\ [][FlightNext]_vars

\* C23: every cache invalidation of performEmailOperation is issued after
\* the Mailbox mutation has completed with success = true: none is issued
\* before the mutation returns, and none when it throws or reports
\* success = false.
C23_InvalidationAfterSuccess ==
  /\ \A i \in 1..Len(flight.log) :
       flight.log[i] \in InvalidationEvents =>
         \E j \in 1..(i - 1) : flight.log[j] = "mutation-ok"
  /\ flight.result \in {"fail", "throws"} =>
       \A i \in 1..Len(flight.log) : flight.log[i] \notin InvalidationEvents

\* A successful operation that has made all its invalidation calls.
C23_Witness ==
  /\ flight.opPos = "done"
  /\ flight.result = "ok"
  /\ Len(flight.log) = 2 + Len(InvalidationCalls(flight.type))
  /\ flight.log[3] = "delete"

\* C29: once a getEmail that missed the cache and a successful
\* performEmailOperation on the same message have both completed, the entry
\* of the message is absent or holds the message as it is after the
\* mutation, never as it was before (the service staying connected).
C29_NoStaleEntryAfterRace ==
  (/\ flight.getPos = "done"
   /\ flight.opPos = "done"
   /\ flight.result = "ok"
   /\ flight.connected)
    => flight.entry \in {"absent", "post"}

\* ---------------------------------------------------------------------------
\* The time-to-live of a cached email
\* ---------------------------------------------------------------------------

\* email.date of the messages of the Mailbox, in milliseconds of the clock:
\* message 5 is an hour old when the clock starts, 7 three days, 9 a month.
MailDate(uid) ==
  CASE uid = "5" -> 0 - 60 * 60 * 1000
    [] uid = "7" -> 0 - 3 * 24 * 60 * 60 * 1000
    [] OTHER -> 0 - 30 * 24 * 60 * 60 * 1000

\* Math.max
Max(a, b) == IF a >= b THEN a ELSE b

\* PerformanceOptimizer.calculateCacheTTL, of the age and the read flag of
\* the email (the base values are even, so baseTTL / 2 is whole)
calculateCacheTTL(emailAge, isRead) ==
  LET dayInMs == 24 * 60 * 60 * 1000
      baseTTL == IF emailAge < dayInMs THEN 10 * 60
                 ELSE IF emailAge < 7 * dayInMs THEN 60 * 60
                 ELSE 4 * 60 * 60
  IN IF ~isRead THEN Max(baseTTL \div 2, 5 * 60) ELSE baseTTL

\* The entry the active backend holds for key.
HeldItem(key) == IF RedisOn THEN redisData[key] ELSE MemGet(memoryCache, key)

\* C24: the time-to-live with which cacheEmail stores an email is computed
\* for the entry from the age of the email and its read status: every email
\* entry held has the time-to-live that calculateCacheTTL gives for it.
C24_EmailTtlPerEntry ==
  \A folder \in SvcFolders, uid \in SvcUids :
    Holds(EmailKey(folder, uid)) =>
      HeldItem(EmailKey(folder, uid)).ttl
        = calculateCacheTTL(HeldItem(EmailKey(folder, uid)).createdAt - MailDate(uid),
                            MailSeen(uid))

\* ---------------------------------------------------------------------------
\* clearPattern on the memory backend
\* ---------------------------------------------------------------------------

\* C25: on the memory backend clearPattern(p) removes exactly the keys that
\* match p read as a glob, '*' standing for any run of characters (the keys
\* the external store's scan would list), and leaves every other key.
C25_MemoryClearsGlobMatches ==
  [][ (/\ ~RedisOn
       /\ lastCall'.op = "clearPattern"
       /\ lastCall' # lastCall \/ memoryCache' # memoryCache)
      => DOMAIN memoryCache'
           = { k \in DOMAIN memoryCache : ~GlobMatch(lastCall'.arg, k) } ]_vars

\* ---------------------------------------------------------------------------
\* Eviction: a memory store filled to a capacity at which set evicts.
\* ---------------------------------------------------------------------------

\* config.maxSize of the store of this specification.
EvictCapacity == 10

\* The keys set, in the order in which new ones are taken.
EvictKeyNames ==
  << "k01", "k02", "k03", "k04", "k05", "k06", "k07", "k08", "k09", "k10",
     "k11", "k12" >>

\* The key after the last one taken, while there is one.
NextNewKeys ==
  { EvictKeyNames[i] : i \in { i \in 1..Len(EvictKeyNames) :
      /\ \A j \in i..Len(EvictKeyNames) : EvictKeyNames[j] \notin DOMAIN memoryCache
      /\ i > 1 => EvictKeyNames[i - 1] \in DOMAIN memoryCache \/ i - 1 = 1 } }

\* A set is of a new key or of the first key again.
EvictSetKeys == {EvictKeyNames[1]} \cup NextNewKeys

EvictInit ==
  /\ memoryCache = NoEntries
  /\ redisData = NoEntries
  /\ useRedis = FALSE
  /\ client = "null"
  /\ connectPending = FALSE
  /\ maxSize = EvictCapacity
  /\ now = 0
  /\ ticks = 0
  /\ lastCall = NoCall
  /\ served = {}
  /\ KeyIdle
  /\ ServiceIdle
  /\ PoolIdle
  /\ UtilIdle

EvictNext ==
  \/ Tick
  \/ \E k \in EvictSetKeys, victims \in VictimCandidates :
       Set(k, StringValue("value1"), 1, "none", victims)

SpecEvict == EvictInit /\ [][EvictNext]_vars

\* Whether the step is a set on the memory backend at capacity.
EvictingSet ==
  /\ ~RedisOn
  /\ lastCall'.op = "set"
  /\ lastCall' # lastCall \/ memoryCache' # memoryCache
  /\ Cardinality(DOMAIN memoryCache) >= maxSize

\* C26: when a set on the memory backend triggers eviction, the entries
\* removed are floor(capacity * 0.1) entries, none of them younger (by
\* createdAt) than an entry that stays, and the key just set is resident
\* afterwards, the entries not removed being as they were.
C26_EvictsOldestTenth ==
  [][ EvictingSet =>
        /\ lastCall'.arg \in DOMAIN memoryCache'
        /\ \E R \in SUBSET DOMAIN memoryCache :
             /\ Cardinality(R) = maxSize \div 10
             /\ \A a \in R, b \in DOMAIN memoryCache \ R :
                  memoryCache[a].createdAt <= memoryCache[b].createdAt
             /\ DOMAIN memoryCache' = (DOMAIN memoryCache \ R) \cup {lastCall'.arg}
             /\ \A k \in DOMAIN memoryCache' \ {lastCall'.arg} :
                  memoryCache'[k] = memoryCache[k] ]_vars

\* A set has evicted the oldest entry of a full store whose entries are not
\* all of one age: the first key is gone, a younger one stays.
C26_Witness ==
  /\ lastCall.op = "set"
  /\ ~RedisOn
  /\ EvictKeyNames[1] \notin DOMAIN memoryCache
  /\ Cardinality(DOMAIN memoryCache) = maxSize
  /\ lastCall.arg \in DOMAIN memoryCache
  /\ \E k \in DOMAIN memoryCache : memoryCache[k].createdAt # now

\* ---------------------------------------------------------------------------
\* Searches that are not to be cached
\* ---------------------------------------------------------------------------

\* Whether the query sets dateFrom, dateTo or isRead (to true or to false).
TimeSensitive(searchQuery) ==
  \/ QueryField(searchQuery, "dateFrom") # ""
  \/ QueryField(searchQuery, "dateTo") # ""
  \/ QueryField(searchQuery, "isRead") # ""

\* C27: searchEmails neither reads nor writes the cache for a query that
\* sets dateFrom, dateTo or isRead (true or false): such a search, when it
\* succeeds, has made its Mailbox call, and the store holds no entry under
\* the key of such a search.
C27_TimeSensitiveSearchUncached ==
  /\ (/\ lastReq.op = "searchEmails"
      /\ TimeSensitive(lastReq.args[1])
      /\ lastReq.response.success)
     => lastReq.calls = 1
  /\ \A q \in SvcQueries, f \in SvcFolders, l \in SvcLimits, o \in Offsets,
        a \in Accounts :
       TimeSensitive(q) =>
         ~Holds(KeyFor("emails:search", SearchParams(q, f, l, o, a.host, a.username)))

\* ---------------------------------------------------------------------------
\* ErrorHandler.checkRateLimit
\* ---------------------------------------------------------------------------

\* The largest maxRequests of the model, how many calls are made, and the
\* identifiers of the callers.
MaxRate == 2
MaxChecks == 4
Identifiers == {"ip1", "ip2"}

\* data.resetTime < windowStart, with windowStart = now - windowMs
WindowOver(resetTime, t, windowMs) == resetTime < t - windowMs

\* The loop "Clean up old entries" over requestCounts
CleanUp(counts, t, windowMs) ==
  [k \in { k \in DOMAIN counts : ~WindowOver(counts[k].resetTime, t, windowMs) }
     |-> counts[k]]

\* requestCounts.set(identifier, data)
CountsSet(counts, identifier, data) ==
  [k \in DOMAIN counts \cup {identifier} |->
     IF k = identifier THEN data ELSE counts[k]]

LimiterRest ==
  UNCHANGED << keyVars, cacheVars, clockVars, lastCall, served, svcVars, poolVars,
               dedupeVars, retry, batch, debounce, throttle, flight >>

\* The handler is deployed with its limit and its window.
LimiterStart(maxRequests, windowMs) ==
  /\ limiter.phase = "idle"
  /\ limiter' = [NoLimiter EXCEPT !.phase = "ready", !.maxRequests = maxRequests,
                                  !.windowMs = windowMs]
  /\ LimiterRest

\* checkRateLimit(identifier, maxRequests, windowMs): the call is admitted
\* (it returns) or rejected (it throws RateLimitError).
CheckRateLimit(identifier) ==
  /\ limiter.phase = "ready"
  /\ limiter.calls < MaxChecks
  /\ LET t == limiter.now
         counts == CleanUp(limiter.requestCounts, t, limiter.windowMs)
         admit == [id |-> identifier, at |-> t]
     IN IF identifier \notin DOMAIN counts
        THEN limiter' =
               [limiter EXCEPT
                  !.calls = @ + 1,
                  !.requestCounts =
                     CountsSet(counts, identifier,
                               [count |-> 1, resetTime |-> t + limiter.windowMs]),
                  !.log = Append(@, admit)]
        ELSE IF counts[identifier].count >= limiter.maxRequests
        THEN limiter' = [limiter EXCEPT !.calls = @ + 1, !.requestCounts = counts]
        ELSE limiter' =
               [limiter EXCEPT
                  !.calls = @ + 1,
                  !.requestCounts =
                     CountsSet(counts, identifier,
                               [counts[identifier] EXCEPT !.count = @ + 1]),
                  !.log = Append(@, admit)]
  /\ LimiterRest

LimiterTick ==
  /\ limiter.phase = "ready"
  /\ limiter.now < MaxTime
  /\ limiter' = [limiter EXCEPT !.now = @ + 1]
  /\ LimiterRest

LimiterNext ==
  \/ \E maxRequests \in 1..MaxRate, windowMs \in 1..MaxWait :
       LimiterStart(maxRequests, windowMs)
  \/ \E identifier \in Identifiers : CheckRateLimit(identifier)
  \/ LimiterTick

SpecLimiter == DebounceInit /\ [][LimiterNext]_vars

\* The calls of identifier admitted from time a up to, not including,
\* a + windowMs.
AdmittedIn(identifier, a) ==
  { i \in 1..Len(limiter.log) :
      /\ limiter.log[i].id = identifier
      /\ limiter.log[i].at >= a
      /\ limiter.log[i].at < a + limiter.windowMs }

\* C28: for each identifier checkRateLimit admits at most maxRequests calls
\* in any interval of length windowMs.
C28_AtMostMaxPerWindow ==
  \A identifier \in Identifiers, a \in 0..MaxTime :
    Cardinality(AdmittedIn(identifier, a)) <= limiter.maxRequests

\* ---------------------------------------------------------------------------
\* Whose settlement removes a ledger record
\* ---------------------------------------------------------------------------

\* C30: the ledger record of an operation is removed only by clear() or by
\* the settlement of that operation: the settlement of an operation started
\* earlier under the same key, and cleared since, leaves it in place.
C30_RecordRemovedByOwnSettlement ==
  [][ \A id \in 1..MaxOperations :
        (Recorded(id) /\ ~Recorded(id)') =>
          \/ pending' = EmptyLedger /\ operations' = operations
          \/ /\ OnFinally(operations[id].state)
             /\ ~operations[id].cleaned
             /\ operations'[id].cleaned ]_vars

=============================================================================
